---- MODULE Spec2Model ----
(***************************************************************************)
(* dev-browser: the element-identity subsystem (backend-ids.ts) over a     *)
(* page whose document changes while the identity operations run.          *)
(*                                                                         *)
(* A page is a tree of elements under the body.  The engine (CDP) hands    *)
(* out two kinds of numbers for a node: a nodeId, local to the DOM agent,  *)
(* and a backendNodeId, the identity handle the operations store.          *)
(* Strings that the code builds character by character (attribute values   *)
(* and their escaped forms) are sequences of one-character strings.        *)
(***************************************************************************)
EXTENDS Integers, Sequences, FiniteSets, TLC

\* ------------------------------------------------------------------ bounds
\* Size of the element pool of a page.
MaxElems == 3
\* Elements the page scripts insert while identity operations run.
MaxInserts == 1
\* Entries of a selector map handed to resolveBackendIds.
MaxSelectors == 2
\* Characters of an attribute value with CSS special characters.
MaxChars == 2
\* Nodes below the root of an extracted tree.
MaxNodes == 2
\* The server receives at most MaxRequests requests.
MaxRequests == 2
\* stop() and the signal and error handlers are invoked at most MaxCalls
\* times in all.
MaxCalls == 2
\* A proxied connection receives at most MaxMessages messages from its
\* client.
MaxMessages == 3

\* ------------------------------------------------------------------- nodes
\* document.body, the root the path walk stops at.
Body == 0
\* The document node (DOM.getDocument's root); not an element.
DocumentNode == Body - 1
\* parentElement of a detached root, nodeId of "no match".
None == Body - 2
Elems == 1..MaxElems
Nodes == {Body} \cup Elems

\* The handle of the test "returns false for invalid backend node ID".
BadHandle == 999999999

\* nodeId and backendNodeId are drawn from different counters of the engine.
NodeIdOf(n) == n + 2
NodeOfNodeId(i) == i - 2
BackendIdOf(n) == n + MaxElems + 4
NodeOfBackendId(h) == h - MaxElems - 4
ElemHandles == {BackendIdOf(e) : e \in Elems}

\* ---------------------------------------------------------------- elements
TagNames == {"BUTTON", "INPUT", "SELECT"}
\* el.tagName.toLowerCase()
ToLowerCase(t) ==
    CASE t = "BUTTON" -> "button"
      [] t = "INPUT" -> "input"
      [] t = "SELECT" -> "select"
      [] t = "TEXTAREA" -> "textarea"
      [] t = "DIV" -> "div"
      [] OTHER -> t

\* ['input', 'select', 'textarea']
FormControlTags == {"input", "select", "textarea"}

NoValue == << >>
IdValues == {NoValue, <<"a">>}
TestIdValues == {NoValue, <<"t">>}
NameValues == {NoValue, <<"n">>}

\* An element that has not been created yet.
NoElement == [tagName |-> "", id |-> NoValue, testid |-> NoValue, name |-> NoValue]
ElementKinds ==
    [tagName : TagNames, id : IdValues, testid : TestIdValues, name : NameValues]

VARIABLES
    kids,          \* node -> sequence of its child elements (parent.children)
    attrs,         \* element -> tagName, id, data-testid, name
    known,         \* nodes the engine has given a backendNodeId and still holds
    pageOpen,      \* the page (CDP target) is open
    openSessions,  \* number of attached CDP sessions
    proc,          \* caller -> the identity operation it runs, with its locals
    stored,        \* handles a caller keeps from resolveBackendIds results
    prior,         \* the last selector synthesized, the element, whether it was attached
                   \* then and whether the document is unchanged since
    synth,         \* the last direct application of the synthesis function
    llm,           \* a getLLMTree call on an extracted tree, with what its stages gave
    srv            \* the serve process: browser launch, page registry, requests

vars == <<kids, attrs, known, pageOpen, openSessions, proc, stored, prior, synth, llm, srv>>

Range(s) == {s[i] : i \in 1..Len(s)}

\* ------------------------------------------------------------ the document
\* el.parentElement (None for a detached root)
ParentElement(e) ==
    IF \E n \in Nodes : e \in Range(kids[n])
    THEN CHOOSE n \in Nodes : e \in Range(kids[n])
    ELSE None

RECURSIVE PreorderSeq(_)
PreorderSeq(ns) ==
    IF ns = << >> THEN << >>
    ELSE <<Head(ns)>> \o PreorderSeq(kids[Head(ns)]) \o PreorderSeq(Tail(ns))

\* The elements of the live document, in document order.
DocOrder == PreorderSeq(kids[Body])
Attached(e) == e \in Range(DocOrder)
Created(e) == attrs[e] # NoElement

\* Array.from(parent.children).filter(c => c.tagName.toLowerCase() === tag)
SameTagSiblings(parent, tag) ==
    SelectSeq(kids[parent], LAMBDA c : ToLowerCase(attrs[c].tagName) = tag)

\* siblings.indexOf(el) + 1
IndexOf(s, x) ==
    IF x \in Range(s) THEN CHOOSE i \in 1..Len(s) : s[i] = x /\ \A j \in 1..(i-1) : s[j] # x
    ELSE 0

\* ------------------------------------------------------------- CSS strings
\* The grave accent, which a TLA+ string cannot hold.
Backtick == "GRAVE"
\* The characters escapeSelector's character class lists.
CssSpecial ==
    {"!", "\"", "#", "$", "%", "&", "'", "(", ")", "*", "+", ",", ".", "/", ":",
     ";", "<", "=", ">", "?", "@", "[", "\\", "]", "^", Backtick, "{", "|", "}", "~"}

RECURSIVE escapeSelector(_)
escapeSelector(str) ==
    IF str = << >> THEN << >>
    ELSE (IF Head(str) \in CssSpecial THEN <<"\\", Head(str)>> ELSE <<Head(str)>>)
         \o escapeSelector(Tail(str))

Selector(form, tag, text, path) ==
    [form |-> form, tag |-> tag, text |-> text, path |-> path]
Segment(tag, nth) == [tag |-> tag, nth |-> nth]
\* A selector string the engine's parser rejects.
InvalidSelector == Selector("invalid", "", << >>, << >>)
NoSelector == Selector("none", "", << >>, << >>)

\* ------------------------------------------------- BUILD_SELECTOR_FUNCTION
\* PathOf counting the position among all siblings (nth-child) instead of
\* among the same-tag siblings.
RECURSIVE PathOf_NthChild(_)
PathOf_NthChild(el) ==
    IF el = None \/ el = Body \/ ParentElement(el) = None THEN << >>
    ELSE LET tag == ToLowerCase(attrs[el].tagName)
             parent == ParentElement(el)
             siblings == SameTagSiblings(parent, tag)
         IN PathOf_NthChild(parent)
            \o <<IF Len(siblings) > 1
                 THEN Segment(tag, IndexOf(kids[parent], el))
                 ELSE Segment(tag, 0)>>

\* The while loop of priority 4: one segment per level, from the element up
\* to (not including) the body or a detached root.
RECURSIVE PathOf(_)
PathOf(el) ==
    IF el = None \/ el = Body \/ ParentElement(el) = None THEN << >>
    ELSE LET tag == ToLowerCase(attrs[el].tagName)
             parent == ParentElement(el)
             siblings == SameTagSiblings(parent, tag)
         IN PathOf(parent)
            \o <<IF Len(siblings) > 1
                 THEN Segment(tag, IndexOf(siblings, el))
                 ELSE Segment(tag, 0)>>

\* BuildSelector with priorities 1 and 2 swapped.
BuildSelector_TestIdFirst(el) ==
    LET this == attrs[el]
        tagName == ToLowerCase(this.tagName)
        path == PathOf(el)
    IN IF this.testid # NoValue
       THEN Selector("testid", "", escapeSelector(this.testid), << >>)
       ELSE IF this.id # NoValue
       THEN Selector("id", "", escapeSelector(this.id), << >>)
       ELSE IF this.name # NoValue /\ tagName \in FormControlTags
       THEN Selector("name", tagName, escapeSelector(this.name), << >>)
       ELSE IF Len(path) > 0
       THEN Selector("path", "", << >>, path)
       ELSE Selector("tag", tagName, << >>, << >>)

\* The function injected into the page, applied to element el (this).
BuildSelector(el) ==
    LET this == attrs[el]
        tagName == ToLowerCase(this.tagName)
        path == PathOf(el)
    IN IF this.id # NoValue
       THEN Selector("id", "", escapeSelector(this.id), << >>)
       ELSE IF this.testid # NoValue
       THEN Selector("testid", "", escapeSelector(this.testid), << >>)
       ELSE IF this.name # NoValue /\ tagName \in FormControlTags
       THEN Selector("name", tagName, escapeSelector(this.name), << >>)
       ELSE IF Len(path) > 0
       THEN Selector("path", "", << >>, path)
       ELSE Selector("tag", tagName, << >>, << >>)

\* --------------------------------------------- the engine's selector query
Digits == {"0", "1", "2", "3", "4", "5", "6", "7", "8", "9"}
HexDigits == Digits \cup {"a", "b", "c", "d", "e", "f", "A", "B", "C", "D", "E", "F"}
Whitespace == {" ", "\t", "\n"}
ParseError == [ok |-> FALSE, value |-> << >>]

\* Reads the characters of a CSS token: a backslash makes the next character
\* literal (a hexadecimal digit after it names a code point instead), and
\* every other character must be outside the set barred.
RECURSIVE CssUnescape(_, _)
CssUnescape(text, barred) ==
    IF text = << >> THEN [ok |-> TRUE, value |-> << >>]
    ELSE IF Head(text) = "\\"
    THEN IF Len(text) < 2 \/ text[2] = "\n" THEN ParseError
         ELSE LET rest == CssUnescape(SubSeq(text, 3, Len(text)), barred)
                  ch == IF text[2] \in HexDigits THEN "CODEPOINT" ELSE text[2]
              IN [ok |-> rest.ok, value |-> <<ch>> \o rest.value]
    ELSE IF Head(text) \notin barred
    THEN LET rest == CssUnescape(Tail(text), barred)
         IN [ok |-> rest.ok, value |-> <<Head(text)>> \o rest.value]
    ELSE ParseError

\* An identifier, as after '#': no unescaped special or blank, no leading digit.
CssIdent(text) ==
    IF text = << >> \/ Head(text) \in Digits THEN ParseError
    ELSE CssUnescape(text, CssSpecial \cup Whitespace)

\* The inside of a double-quoted string, as in [name="..."].
CssString(text) ==
    CssUnescape(text, {"\"", "\\", "\n"})

SelectorParses(sel) ==
    CASE sel.form = "id" -> CssIdent(sel.text).ok
      [] sel.form \in {"testid", "name"} -> CssString(sel.text).ok
      [] sel.form \in {"path", "tag"} -> TRUE
      [] OTHER -> FALSE

MatchesSegment(seg, e) ==
    /\ ToLowerCase(attrs[e].tagName) = seg.tag
    /\ \/ seg.nth = 0
       \/ IndexOf(SameTagSiblings(ParentElement(e), seg.tag), e) = seg.nth

\* 'body > s1 > ... > sn': child combinators from the body down to e.
RECURSIVE MatchesPath(_, _)
MatchesPath(path, e) ==
    /\ path # << >>
    /\ ParentElement(e) # None
    /\ MatchesSegment(path[Len(path)], e)
    /\ IF Len(path) = 1 THEN ParentElement(e) = Body
       ELSE /\ ParentElement(e) \in Elems
            /\ MatchesPath(SubSeq(path, 1, Len(path) - 1), ParentElement(e))

Matches(sel, e) ==
    CASE sel.form = "id" -> attrs[e].id = CssIdent(sel.text).value
      [] sel.form = "testid" -> attrs[e].testid = CssString(sel.text).value
      [] sel.form = "name" ->
            /\ ToLowerCase(attrs[e].tagName) = sel.tag
            /\ attrs[e].name = CssString(sel.text).value
      [] sel.form = "tag" -> ToLowerCase(attrs[e].tagName) = sel.tag
      [] sel.form = "path" -> MatchesPath(sel.path, e)
      [] OTHER -> FALSE

\* querySelector: the first match in document order, None when nothing matches.
QuerySelector(sel) ==
    LET hits == SelectSeq(DocOrder, LAMBDA e : Matches(sel, e))
    IN IF hits = << >> THEN None ELSE Head(hits)

\* ------------------------------------------------------------- the callers
Procs == {"p1", "p2"}
RBI == "resolveBackendIds"
RSF == "resolveSelectorFromBackendId"
IBV == "isBackendNodeIdValid"

\* A caller's frame: the operation, the await it is at, its arguments and
\* locals.  error is the exception travelling to the finally block ("" for
\* none).  History: found and described are the entries whose query found an
\* element and whose node the engine described, caught says that a per-entry
\* exception was swallowed, stale that a navigation happened during the call,
\* before is the selector the previous synthesis gave for the same element
\* when the document has not changed since.
Frame(op, pc, selectorMap, backendNodeId) ==
    [op |-> op, pc |-> pc, selectorMap |-> selectorMap,
     backendNodeId |-> backendNodeId, session |-> "none", root |-> 0, k |-> 0,
     nodeId |-> 0, found |-> {}, described |-> {}, indexToBackendId |-> << >>, objectId |-> 0,
     exceptionDetails |-> FALSE, value |-> NoSelector, before |-> NoSelector,
     valid |-> FALSE,
     error |-> "", outcome |-> "", caught |-> FALSE, stale |-> FALSE]
Idle == Frame("none", "idle", << >>, 0)
\* A caller that never calls.
Absent == Frame("none", "absent", << >>, 0)

\* The selectors a selector map may hold: 'input[name="n"]', 'body > button'
\* (each matches nothing on a page without such an element) and one the
\* engine cannot parse.
SelectorInputs ==
    {Selector("name", "input", <<"n">>, << >>),
     Selector("path", "", << >>, <<Segment("button", 0)>>),
     InvalidSelector}
\* Selector maps with keys 1..n in iteration order, one selector per element
\* of the snapshot: no selector occurs twice.
SelectorMaps ==
    {m \in UNION {[1..n -> SelectorInputs] : n \in 0..MaxSelectors} :
        \A i, j \in DOMAIN m : m[i] = m[j] => i = j}
NoPrior == [el |-> None, selector |-> NoSelector, attached |-> FALSE, fresh |-> FALSE]

\* Throw without the finally block: the exception leaves the operation at
\* once and the session stays attached.
Throw_NoFinally(r, origin) ==
    [r EXCEPT !.pc = "done", !.outcome = "raised", !.error = origin]

\* try { ... } finally { detach }: an exception in the try block goes to the
\* finally block.
Throw(r, origin) == [r EXCEPT !.pc = "detach", !.error = origin]

\* for (const [index, selector] of selectorMap): on to the next entry, and to
\* 'return indexToBackendId' after the last.
NextEntry(r) ==
    IF r.k < Len(r.selectorMap)
    THEN [r EXCEPT !.pc = "querySelector", !.k = r.k + 1, !.nodeId = 0]
    ELSE [r EXCEPT !.pc = "detach", !.nodeId = 0]

\* EntryFailed with the catch around the loop instead of inside it: the first
\* failing entry ends the loop.
EntryFailed_Aborts(r) == [r EXCEPT !.pc = "detach", !.caught = TRUE, !.nodeId = 0]

\* EntryFailed without the inner catch: the entry's exception propagates.
EntryFailed_Propagates(r) == Throw(r, "entry")

\* EntryFailed with a retry: the failed entry is queried again.
EntryFailed_Retries(r) == [r EXCEPT !.pc = "querySelector", !.caught = TRUE, !.nodeId = 0]

\* catch { } inside the loop: the entry's exception is swallowed.
EntryFailed(r) == NextEntry([r EXCEPT !.caught = TRUE])

\* SetBackendId storing the session-local nodeId instead of the backendNodeId.
SetBackendId_NodeId(r, node) ==
    [r EXCEPT !.indexToBackendId = (r.k :> NodeIdOf(node)) @@ r.indexToBackendId]

\* indexToBackendId.set(index, node.backendNodeId)
SetBackendId(r, node) ==
    [r EXCEPT !.indexToBackendId = (r.k :> BackendIdOf(node)) @@ r.indexToBackendId]

\* ------------------------------------------------- entering an operation
CallResolveBackendIds(p, selectorMap) ==
    /\ proc[p].pc = "idle"
    /\ proc' = [proc EXCEPT ![p] = Frame(RBI, "newCDPSession", selectorMap, 0)]
    /\ UNCHANGED <<kids, attrs, known, pageOpen, openSessions, stored, prior, synth, llm, srv>>

CallResolveSelectorFromBackendId(p, backendNodeId) ==
    /\ proc[p].pc = "idle"
    /\ proc' = [proc EXCEPT ![p] = Frame(RSF, "newCDPSession", << >>, backendNodeId)]
    /\ UNCHANGED <<kids, attrs, known, pageOpen, openSessions, stored, prior, synth, llm, srv>>

CallIsBackendNodeIdValid(p, backendNodeId) ==
    /\ proc[p].pc = "idle"
    /\ proc' = [proc EXCEPT ![p] = Frame(IBV, "newCDPSession", << >>, backendNodeId)]
    /\ UNCHANGED <<kids, attrs, known, pageOpen, openSessions, stored, prior, synth, llm, srv>>

\* const cdpSession = await context.newCDPSession(page), before the try block:
\* a failure leaves the operation at once, with no session opened.
NewCDPSession(p) ==
    /\ proc[p].pc = "newCDPSession"
    /\ IF pageOpen
       THEN /\ openSessions' = openSessions + 1
            /\ proc' = [proc EXCEPT ![p].session = "attached",
                            ![p].pc = IF proc[p].op = RBI THEN "getDocument"
                                      ELSE "resolveNode"]
       ELSE /\ openSessions' = openSessions
            /\ proc' = [proc EXCEPT ![p].pc = "done", ![p].outcome = "raised",
                                    ![p].error = "newCDPSession"]
    /\ UNCHANGED <<kids, attrs, known, pageOpen, stored, prior, synth, llm, srv>>

\* ------------------------------------------------------- resolveBackendIds
\* const { root } = await cdpSession.send("DOM.getDocument", { depth: 0 })
GetDocument(p) ==
    /\ proc[p].pc = "getDocument"
    /\ IF pageOpen
       THEN /\ known' = known \cup {DocumentNode}
            /\ proc' = [proc EXCEPT ![p] =
                   NextEntry([proc[p] EXCEPT !.root = NodeIdOf(DocumentNode)])]
       ELSE /\ known' = known
            /\ proc' = [proc EXCEPT ![p] = Throw(proc[p], "getDocument")]
    /\ UNCHANGED <<kids, attrs, pageOpen, openSessions, stored, prior, synth, llm, srv>>

\* const { nodeId } = await cdpSession.send("DOM.querySelector", ...).  The
\* command fails on a closed session, on a root nodeId a navigation has
\* invalidated and on a selector the engine cannot parse.
QuerySelectorCommand(p) ==
    LET r == proc[p]
        selector == r.selectorMap[r.k]
        nodeId == NodeIdOf(QuerySelector(selector))
    IN /\ r.op = RBI /\ r.pc = "querySelector"
       /\ proc' = [proc EXCEPT ![p] =
              IF ~pageOpen \/ r.stale \/ ~SelectorParses(selector)
              THEN EntryFailed(r)
              ELSE IF nodeId # 0
              THEN [r EXCEPT !.pc = "describeNode", !.nodeId = nodeId,
                             !.found = r.found \cup {r.k}]
              ELSE NextEntry(r)]
       /\ UNCHANGED <<kids, attrs, known, pageOpen, openSessions, stored, prior, synth, llm, srv>>

\* const { node } = await cdpSession.send("DOM.describeNode", { nodeId }).
\* A node removed from the document since the query may have lost its nodeId:
\* the engine then answers either way.
DescribeNode(p) ==
    LET r == proc[p]
        node == NodeOfNodeId(r.nodeId)
    IN /\ r.op = RBI /\ r.pc = "describeNode"
       /\ \E answered \in IF ~pageOpen \/ r.stale THEN {FALSE}
                          ELSE IF Attached(node) THEN {TRUE} ELSE BOOLEAN :
             IF answered
             THEN /\ known' = known \cup {node}
                  /\ proc' = [proc EXCEPT ![p] = NextEntry(SetBackendId(
                                  [r EXCEPT !.described = r.described \cup {r.k}], node))]
             ELSE /\ known' = known
                  /\ proc' = [proc EXCEPT ![p] = EntryFailed(r)]
       /\ UNCHANGED <<kids, attrs, pageOpen, openSessions, stored, prior, synth, llm, srv>>

\* -------------------------------------------- resolveSelectorFromBackendId
\* The objectId the engine gives a resolved node (never empty).
ObjectIdOf(node) == NodeIdOf(node)
NodeOfObjectId(o) == NodeOfNodeId(o)

\* const { object } = await cdpSession.send("DOM.resolveNode", ...);
\* if (!object.objectId) throw
ResolveNode(p) ==
    LET r == proc[p]
        node == NodeOfBackendId(r.backendNodeId)
        objectId == ObjectIdOf(node)
    IN /\ r.op = RSF /\ r.pc = "resolveNode"
       /\ proc' = [proc EXCEPT ![p] =
              IF ~pageOpen \/ node \notin known THEN Throw(r, "resolveNode")
              ELSE IF objectId = 0 THEN Throw(r, "objectId")
              ELSE [r EXCEPT !.pc = "callFunctionOn", !.objectId = objectId]]
       /\ UNCHANGED <<kids, attrs, known, pageOpen, openSessions, stored, prior, synth, llm, srv>>

\* AttributesAfter for a function that stamps a data-testid on an element
\* that has none, to find it again.
AttributesAfter_Stamped(this) ==
    IF attrs[this].testid = NoValue THEN [attrs EXCEPT ![this].testid = <<"t">>]
    ELSE attrs

\* The element's attributes after the page function ran on it: the function
\* reads id, data-testid, name, tagName, parentElement and children, and
\* writes nothing.
AttributesAfter(this) == attrs

\* const result = await cdpSession.send("Runtime.callFunctionOn", ...).  The
\* function runs against the element; on the document node, which has no
\* getAttribute, it throws and the engine reports exceptionDetails.  After a
\* navigation the object's execution context is gone and the command fails.
CallFunctionOn(p) ==
    LET r == proc[p]
        this == NodeOfObjectId(r.objectId)
    IN /\ r.op = RSF /\ r.pc = "callFunctionOn"
       /\ IF ~pageOpen \/ r.stale
          THEN /\ proc' = [proc EXCEPT ![p] = Throw(r, "callFunctionOn")]
               /\ prior' = prior
               /\ attrs' = attrs
          ELSE IF this \in Elems
          THEN /\ proc' = [proc EXCEPT ![p].pc = "releaseObjectGroup",
                                       ![p].value = BuildSelector(this),
                                       ![p].before = IF prior.el = this /\ prior.fresh
                                                     THEN prior.selector
                                                     ELSE NoSelector]
               /\ prior' = [el |-> this, selector |-> BuildSelector(this),
                            attached |-> Attached(this), fresh |-> TRUE]
               /\ attrs' = AttributesAfter(this)
          ELSE /\ proc' = [proc EXCEPT ![p].pc = "releaseObjectGroup",
                                       ![p].exceptionDetails = TRUE]
               /\ prior' = prior
               /\ attrs' = attrs
       /\ UNCHANGED <<kids, known, pageOpen, openSessions, stored, synth, llm, srv>>

\* SelectorResult without the exceptionDetails check.
SelectorResult_IgnoresException(r) == [r EXCEPT !.pc = "detach"]

\* if (result.exceptionDetails) throw; return result.result.value
SelectorResult(r) ==
    IF r.exceptionDetails THEN Throw(r, "exceptionDetails")
    ELSE [r EXCEPT !.pc = "detach"]

\* await cdpSession.send("Runtime.releaseObjectGroup", ...), then the result.
ReleaseObjectGroup(p) ==
    LET r == proc[p]
    IN /\ r.op = RSF /\ r.pc = "releaseObjectGroup"
       /\ proc' = [proc EXCEPT ![p] =
              IF ~pageOpen THEN Throw(r, "releaseObjectGroup")
              ELSE SelectorResult(r)]
       /\ UNCHANGED <<kids, attrs, known, pageOpen, openSessions, stored, prior, synth, llm, srv>>

\* ---------------------------------------------------- isBackendNodeIdValid
\* try { await send("DOM.resolveNode"); return true } catch { return false }
CheckResolveNode(p) ==
    LET r == proc[p]
        node == NodeOfBackendId(r.backendNodeId)
    IN /\ r.op = IBV /\ r.pc = "resolveNode"
       /\ proc' = [proc EXCEPT ![p].pc = "detach",
                               ![p].valid = (pageOpen /\ node \in known)]
       /\ UNCHANGED <<kids, attrs, known, pageOpen, openSessions, stored, prior, synth, llm, srv>>

\* ------------------------------------------------------- leaving an operation
\* finally { await cdpSession.detach() }: detaching a session the engine has
\* already closed throws, and that exception replaces the operation's result.
Detach(p) ==
    LET r == proc[p]
    IN /\ r.pc = "detach"
       /\ IF r.session = "attached"
          THEN /\ openSessions' = openSessions - 1
               /\ proc' = [proc EXCEPT ![p].pc = "done", ![p].session = "detached",
                               ![p].outcome = IF r.error = "" THEN "returned"
                                              ELSE "raised"]
          ELSE /\ openSessions' = openSessions
               /\ proc' = [proc EXCEPT ![p].pc = "done", ![p].outcome = "raised",
                                       ![p].error = "detach"]
       /\ UNCHANGED <<kids, attrs, known, pageOpen, stored, prior, synth, llm, srv>>

MapRange(f) == {f[i] : i \in DOMAIN f}

\* The caller takes the result; the handles of a resolveBackendIds result are
\* kept for later calls (the tests' storedIds).
Return(p) ==
    LET r == proc[p]
    IN /\ r.pc = "done"
       /\ stored' = IF r.op = RBI /\ r.outcome = "returned" /\ ~r.stale
                    THEN stored \cup MapRange(r.indexToBackendId)
                    ELSE stored
       /\ proc' = [proc EXCEPT ![p] = Idle]
       /\ UNCHANGED <<kids, attrs, known, pageOpen, openSessions, prior, synth, llm, srv>>

\* ------------------------------------------------------------------ the page
\* The kinds of element the page's scripts insert: <button> and
\* <input name="n">.
PageKinds ==
    {[tagName |-> "BUTTON", id |-> NoValue, testid |-> NoValue, name |-> NoValue],
     [tagName |-> "INPUT", id |-> NoValue, testid |-> NoValue, name |-> <<"n">>]}

CreatedElems == {e \in Elems : Created(e)}
InFlight(r) == r.pc \notin {"idle", "absent"}

\* document.body.insertBefore(el, document.body.firstChild) /
\* document.body.appendChild(el), with a new element el, the page having
\* fewer than limit elements so far.
InsertElementUpTo(limit, kind, first) ==
    LET el == Cardinality(CreatedElems) + 1
    IN /\ pageOpen
       /\ Cardinality(CreatedElems) < limit
       /\ el \in Elems
       /\ attrs' = [attrs EXCEPT ![el] = kind]
       /\ kids' = [kids EXCEPT ![Body] =
                      IF first THEN <<el>> \o @ ELSE Append(@, el)]
       /\ prior' = [prior EXCEPT !.fresh = FALSE]
       /\ UNCHANGED <<known, pageOpen, openSessions, proc, stored, synth, llm, srv>>

InsertElement(kind, first) == InsertElementUpTo(MaxInserts, kind, first)

\* el.remove(): el leaves its parent and keeps its own children.
RemoveElement(el) ==
    /\ pageOpen
    /\ Attached(el)
    /\ kids' = [kids EXCEPT ![ParentElement(el)] = SelectSeq(@, LAMBDA c : c # el)]
    /\ prior' = [prior EXCEPT !.fresh = FALSE]
    /\ UNCHANGED <<attrs, known, pageOpen, openSessions, proc, stored, synth, llm, srv>>

\* A navigation: a new, empty document.  The engine drops every node of the
\* old one, so its handles and the nodeIds of running calls are gone.
Navigate ==
    /\ pageOpen
    /\ CreatedElems # {}
    /\ kids' = [n \in Nodes |-> << >>]
    /\ known' = {}
    /\ stored' = {}
    /\ prior' = NoPrior
    /\ proc' = [p \in Procs |->
                   IF InFlight(proc[p]) THEN [proc[p] EXCEPT !.stale = TRUE]
                   ELSE proc[p]]
    /\ UNCHANGED <<attrs, pageOpen, openSessions, synth, llm, srv>>

\* The page closes: the engine closes every session attached to it.
PageClose ==
    /\ pageOpen
    /\ pageOpen' = FALSE
    /\ openSessions' = 0
    /\ proc' = [p \in Procs |->
                   IF proc[p].session = "attached"
                   THEN [proc[p] EXCEPT !.session = "closed"]
                   ELSE proc[p]]
    /\ UNCHANGED <<kids, attrs, known, stored, prior, synth, llm, srv>>

\* ------------------------------------------------------- the specification
NoSynth == [el |-> None, selector |-> NoSelector, queried |-> FALSE, hit |-> None]
\* null, for a tree (a tree is the sequence of its nodes).
NoTree == << >>
\* No getLLMTree call on an extracted tree.
NoLLM ==
    [pc |-> "absent", rawTree |-> NoTree, ran |-> << >>, visibleTree |-> NoTree,
     paintFiltered |-> NoTree, bboxFiltered |-> NoTree,
     result |-> [tree |-> << >>, selectorMap |-> << >>],
     processed |-> NoTree,
     custom |-> [tree |-> << >>, selectorMap |-> << >>],
     resolved |-> FALSE,
     out |-> [tree |-> << >>, selectorMap |-> << >>, backendNodeMap |-> << >>]]

\* serve has not been called.
NoServer ==
    [lazy |-> FALSE, phase |-> "absent", launch |-> "idle", launches |-> 0,
     launchedBy |-> 0, context |-> FALSE, wsEndpoint |-> FALSE,
     browserLaunching |-> "null", registry |-> << >>, pages |-> << >>,
     epoch |-> << >>, reqs |-> << >>,
     cleaningUp |-> FALSE, cleanups |-> 0, cleanup |-> "idle", closing |-> 0,
     contextClosed |-> FALSE, serverClosed |-> FALSE, handlersRemoved |-> FALSE,
     callers |-> << >>, exited |-> FALSE,
     ws |-> [clientWs |-> "none", chromeWs |-> "none", chromeReady |-> FALSE,
             messageQueue |-> << >>, sent |-> << >>, arrived |-> << >>]]

EmptyPage ==
    /\ kids = [n \in Nodes |-> << >>]
    /\ attrs = [e \in Elems |-> NoElement]
    /\ known = {}
    /\ pageOpen = TRUE
    /\ openSessions = 0
    /\ stored = {}
    /\ prior = NoPrior
    /\ synth = NoSynth

\* One caller issuing the identity operations one after the other, against a
\* page whose scripts change the document meanwhile.
Init ==
    /\ EmptyPage
    /\ proc = [p \in Procs |-> IF p = "p1" THEN Idle ELSE Absent]
    /\ llm = NoLLM
    /\ srv = NoServer

\* A caller passes a handle it has kept, the number that is or will be the
\* handle of an element or of the document, or the tests' invalid number.
HandleInputs ==
    stored \cup {BackendIdOf(e) : e \in CreatedElems}
           \cup {BackendIdOf(DocumentNode), BadHandle}

Call(p) ==
    \/ \E selectorMap \in SelectorMaps : CallResolveBackendIds(p, selectorMap)
    \/ \E backendNodeId \in HandleInputs : CallResolveSelectorFromBackendId(p, backendNodeId)
    \/ \E backendNodeId \in HandleInputs : CallIsBackendNodeIdValid(p, backendNodeId)

Step(p) ==
    \/ NewCDPSession(p)
    \/ GetDocument(p)
    \/ QuerySelectorCommand(p)
    \/ DescribeNode(p)
    \/ ResolveNode(p)
    \/ CallFunctionOn(p)
    \/ ReleaseObjectGroup(p)
    \/ CheckResolveNode(p)
    \/ Detach(p)
    \/ Return(p)

PageStep ==
    \/ \E kind \in PageKinds, first \in BOOLEAN : InsertElement(kind, first)
    \/ \E el \in Elems : RemoveElement(el)
    \/ Navigate
    \/ PageClose

Next ==
    \/ \E p \in Procs : Call(p) \/ Step(p)
    \/ PageStep

Spec == Init /\ [][Next]_vars

\* The same caller against a page that page.setContent gave one element
\* before its scripts insert theirs.
InitSeeded ==
    /\ \E kind \in PageKinds :
          /\ kids = [n \in Nodes |-> IF n = Body THEN <<1>> ELSE << >>]
          /\ attrs = [e \in Elems |-> IF e = 1 THEN kind ELSE NoElement]
    /\ known = {}
    /\ pageOpen = TRUE
    /\ openSessions = 0
    /\ stored = {}
    /\ prior = NoPrior
    /\ synth = NoSynth
    /\ proc = [p \in Procs |-> IF p = "p1" THEN Idle ELSE Absent]
    /\ llm = NoLLM
    /\ srv = NoServer

NextSeeded ==
    \/ \E p \in Procs : Call(p) \/ Step(p)
    \/ \E kind \in PageKinds, first \in BOOLEAN :
          InsertElementUpTo(MaxInserts + 1, kind, first)
    \/ \E el \in Elems : RemoveElement(el)
    \/ Navigate
    \/ PageClose

SpecSeeded == InitSeeded /\ [][NextSeeded]_vars

\* Two callers whose operations interleave, on a page holding
\* <input name="n"> that may close under them.
InitInterleaved ==
    /\ kids = [n \in Nodes |-> IF n = Body THEN <<1>> ELSE << >>]
    /\ attrs = [e \in Elems |->
                   IF e = 1 THEN [NoElement EXCEPT !.tagName = "INPUT", !.name = <<"n">>]
                   ELSE NoElement]
    /\ known = {}
    /\ pageOpen = TRUE
    /\ openSessions = 0
    /\ stored = {}
    /\ prior = NoPrior
    /\ synth = NoSynth
    /\ llm = NoLLM
    /\ srv = NoServer
    /\ proc = [p \in Procs |-> Idle]

\* The second caller's selector maps are one entry shorter.
CallShort(p) ==
    \/ \E selectorMap \in {m \in SelectorMaps : Len(m) < MaxSelectors} :
          CallResolveBackendIds(p, selectorMap)
    \/ \E backendNodeId \in HandleInputs : CallResolveSelectorFromBackendId(p, backendNodeId)
    \/ \E backendNodeId \in HandleInputs : CallIsBackendNodeIdValid(p, backendNodeId)

NextInterleaved ==
    \/ Call("p1") \/ CallShort("p2")
    \/ \E p \in Procs : Step(p)
    \/ PageClose

SpecInterleaved == InitInterleaved /\ [][NextInterleaved]_vars

\* ------------------------------------- the synthesis function on its own
RECURSIVE SortedSeq(_)
SortedSeq(S) ==
    IF S = {} THEN << >>
    ELSE LET least == CHOOSE x \in S : \A y \in S : x <= y
         IN <<least>> \o SortedSeq(S \ {least})

\* Every document of MaxElems elements: each element hangs under the body,
\* under an earlier element or under nothing (a detached root), siblings in
\* creation order.  One element, the one the function is to be applied to,
\* has any combination of tag, id, data-testid and name; of the others the
\* function reads the tag alone, and they have any tag and no attribute.
Documents ==
    {par \in [Elems -> {None} \cup Nodes] : \A e \in Elems : par[e] < e}

InitSynthesis ==
    /\ \E par \in Documents :
          kids = [n \in Nodes |-> SortedSeq({e \in Elems : par[e] = n})]
    /\ \E this \in Elems, kind \in ElementKinds, tags \in [Elems -> TagNames] :
          attrs = [e \in Elems |->
                      IF e = this THEN kind
                      ELSE [NoElement EXCEPT !.tagName = tags[e]]]
    /\ known = {}
    /\ pageOpen = TRUE
    /\ openSessions = 0
    /\ stored = {}
    /\ prior = NoPrior
    /\ synth = NoSynth
    /\ llm = NoLLM
    /\ srv = NoServer
    /\ proc = [p \in Procs |-> Absent]

\* BUILD_SELECTOR_FUNCTION applied to element el.
SynthesizeSelector(el) ==
    /\ synth.el = None
    /\ synth' = [el |-> el, selector |-> BuildSelector(el), queried |-> FALSE,
                 hit |-> None]
    /\ UNCHANGED <<kids, attrs, known, pageOpen, openSessions, proc, stored, prior, llm, srv>>

\* page.$(selector) with the synthesized selector (the tests' check).
QuerySynthesized ==
    /\ synth.el # None
    /\ ~synth.queried
    /\ SelectorParses(synth.selector)
    /\ synth' = [synth EXCEPT !.queried = TRUE, !.hit = QuerySelector(synth.selector)]
    /\ UNCHANGED <<kids, attrs, known, pageOpen, openSessions, proc, stored, prior, llm, srv>>

NextSynthesis ==
    \/ \E el \in Elems : SynthesizeSelector(el)
    \/ QuerySynthesized

SpecSynthesis == InitSynthesis /\ [][NextSynthesis]_vars

\* ----------------------------- the synthesis function on special characters
\* The characters of the attribute values: a letter, a digit, a colon and a
\* double quote.
ValueChars == {"a", "1", ":", "\""}
AttributeValues == UNION {[1..n -> ValueChars] : n \in 1..MaxChars}

\* A body of MaxElems sibling elements; one of them carries, as its id, its
\* data-testid or its name, a value no other element has.
InitEscaping ==
    /\ kids = [n \in Nodes |-> IF n = Body THEN SortedSeq(Elems) ELSE << >>]
    /\ \E this \in Elems, tagName \in TagNames, value \in AttributeValues,
          attribute \in {"id", "data-testid", "name"} :
          attrs = [e \in Elems |->
                      IF e = this
                      THEN [tagName |-> tagName,
                            id |-> IF attribute = "id" THEN value ELSE NoValue,
                            testid |-> IF attribute = "data-testid" THEN value ELSE NoValue,
                            name |-> IF attribute = "name" THEN value ELSE NoValue]
                      ELSE [NoElement EXCEPT !.tagName = "INPUT"]]
    /\ known = {}
    /\ pageOpen = TRUE
    /\ openSessions = 0
    /\ stored = {}
    /\ prior = NoPrior
    /\ synth = NoSynth
    /\ llm = NoLLM
    /\ srv = NoServer
    /\ proc = [p \in Procs |-> Absent]

SpecEscaping == InitEscaping /\ [][NextSynthesis]_vars

\* =========================================== the extraction pipeline (dom)
\* A tree (RawDOMNode) is the sequence of its nodes in document order, the
\* root first; a node names its parent.  null is the empty sequence.  A node
\* carries what the filters and the serializer read: whether its own
\* visibility check passes, whether it is interactive or meaningful, its
\* bounding rectangle (the set of grid cells it covers), its paint-order
\* rank, whether it is opaque, and the selector its tag, attributes and
\* position give it.
RootNode == Body

RawNode(node, parent, visible, interactive, rect, paintOrder, opaque, selector) ==
    [node |-> node, parent |-> parent, visible |-> visible,
     interactive |-> interactive, rect |-> rect, paintOrder |-> paintOrder,
     opaque |-> opaque, selector |-> selector]

\* The document root: visible, over the whole viewport, painted first,
\* transparent; interactive when the page makes it so.
RootRawNode(interactive) ==
    RawNode(RootNode, None, TRUE, interactive, {1, 2}, 0, FALSE,
            Selector("tag", "body", << >>, << >>))

NodesOf(tree) == {tree[i].node : i \in 1..Len(tree)}
NodeAt(tree, n) == tree[CHOOSE i \in 1..Len(tree) : tree[i].node = n]
PositionOf(tree, n) == CHOOSE i \in 1..Len(tree) : tree[i].node = n

\* a is a proper ancestor of b in the tree.
RECURSIVE IsAncestor(_, _, _)
IsAncestor(tree, a, b) ==
    LET parent == NodeAt(tree, b).parent
    IN /\ parent \in NodesOf(tree)
       /\ (parent = a \/ IsAncestor(tree, a, parent))

\* The nearest ancestor of n (in tree) that is among the kept nodes.
RECURSIVE KeptAncestor(_, _, _)
KeptAncestor(tree, kept, n) ==
    LET parent == NodeAt(tree, n).parent
    IN IF parent \notin NodesOf(tree) THEN None
       ELSE IF parent \in kept THEN parent
       ELSE KeptAncestor(tree, kept, parent)

\* The tree without the nodes outside kept: a removed node is replaced by its
\* surviving children, document order stays.
Prune(tree, kept) ==
    LET Survivors(keep) == SelectSeq(tree, LAMBDA n : n.node \in keep)
        Reparented(keep, survivors) ==
            [i \in 1..Len(survivors) |->
                [survivors[i] EXCEPT !.parent = KeptAncestor(tree, keep, survivors[i].node)]]
    IN CHOOSE pruned \in {Reparented(keep, Survivors(keep)) : keep \in {kept}} : TRUE

\* --- visibility.ts: filterVisibleNodes
\* A node stays when its own visibility check passes and it is interactive or
\* meaningful or has a visible interactive descendant; no node left: null.
filterVisibleNodes(rawTree) ==
    LET perceived == {n \in NodesOf(rawTree) :
                        NodeAt(rawTree, n).visible /\ NodeAt(rawTree, n).interactive}
        kept == {n \in NodesOf(rawTree) :
                    /\ NodeAt(rawTree, n).visible
                    /\ \/ n \in perceived
                       \/ \E d \in perceived : IsAncestor(rawTree, n, d)}
    IN IF RootNode \in kept THEN Prune(rawTree, kept) ELSE NoTree

\* --- filters.ts: filterByPaintOrder
\* Containment: overlap area / area of the smaller rectangle, in percent, is
\* at least the threshold of 95.
isFullyContained(a, b) ==
    LET smaller == IF Cardinality(a) <= Cardinality(b) THEN Cardinality(a)
                   ELSE Cardinality(b)
    IN (Cardinality(a \cap b) * 100) \div smaller >= 95

\* a is hidden under an opaque node that is not one of its descendants and
\* paints over it: a strictly later rank, or the same rank and later in
\* document order.
isOccludedByPaintOrder(tree, a) ==
    \E b \in NodesOf(tree) \ {a} :
        /\ NodeAt(tree, b).opaque
        /\ isFullyContained(NodeAt(tree, a).rect, NodeAt(tree, b).rect)
        /\ \/ NodeAt(tree, b).paintOrder > NodeAt(tree, a).paintOrder
           \/ /\ NodeAt(tree, b).paintOrder = NodeAt(tree, a).paintOrder
              /\ PositionOf(tree, b) > PositionOf(tree, a)
        /\ ~IsAncestor(tree, a, b)

filterByPaintOrder(tree) ==
    Prune(tree, {n \in NodesOf(tree) : ~isOccludedByPaintOrder(tree, n)})

\* --- filters.ts: filterByBboxPropagation
\* An inert node inside the box of an interactive ancestor is pruned.
filterByBboxPropagation(tree) ==
    Prune(tree, {n \in NodesOf(tree) :
                    \/ NodeAt(tree, n).interactive
                    \/ ~\E a \in NodesOf(tree) :
                           /\ IsAncestor(tree, a, n)
                           /\ NodeAt(tree, a).interactive
                           /\ isFullyContained(NodeAt(tree, n).rect, NodeAt(tree, a).rect)})

\* --- serialize.ts: serializeTree
\* Depth-first, document order: an interactive or meaningful node gets the
\* next index, its line and its selector under that index; a structural node
\* is passed over.
RECURSIVE SerializeFrom(_, _, _)
SerializeFrom(nodes, index, out) ==
    IF nodes = << >> THEN out
    ELSE IF Head(nodes).interactive
    THEN SerializeFrom(Tail(nodes), index + 1,
             [tree |-> Append(out.tree, [index |-> index, node |-> Head(nodes).node]),
              selectorMap |-> (index :> Head(nodes).selector) @@ out.selectorMap])
    ELSE SerializeFrom(Tail(nodes), index, out)

\* The first index is 1.
serializeTree(tree) == SerializeFrom(tree, 1, [tree |-> << >>, selectorMap |-> << >>])

\* --- dom/index.ts
\* EmptyResult holding a placeholder entry.
EmptyResult_Placeholder == [tree |-> << >>, selectorMap |-> <<NoSelector>>]

\* return { tree: "", selectorMap: new Map() }
EmptyResult == [tree |-> << >>, selectorMap |-> << >>]

\* PaintOrderStage left out.
PaintOrderStage_Skipped(visibleTree) == visibleTree

\* const paintFiltered = filterByPaintOrder(visibleTree)
PaintOrderStage(visibleTree) == filterByPaintOrder(visibleTree)

\* getLLMTree after the extraction: the stages it ran, what each produced and
\* the result.  Each const is computed once, from the const before it.
GetLLMTree(rawTree) ==
    LET \* 5. const result = serializeTree(bboxFiltered, options); return result
        From5(visibleTree, paintFiltered, bboxFiltered) ==
            [ran |-> <<"extractRawDOM", "filterVisibleNodes", "filterByPaintOrder",
                       "filterByBboxPropagation", "serializeTree">>,
             visibleTree |-> visibleTree, paintFiltered |-> paintFiltered,
             bboxFiltered |-> bboxFiltered, result |-> serializeTree(bboxFiltered)]
        \* 4. const bboxFiltered = filterByBboxPropagation(paintFiltered)
        From4(visibleTree, paintFiltered) ==
            CHOOSE run \in {From5(visibleTree, paintFiltered, bboxFiltered) :
                               bboxFiltered \in {filterByBboxPropagation(paintFiltered)}} : TRUE
        \* if (!visibleTree) return empty; 3. the paint-order stage
        From3(visibleTree) ==
            IF visibleTree = NoTree
            THEN [ran |-> <<"extractRawDOM", "filterVisibleNodes">>,
                  visibleTree |-> NoTree, paintFiltered |-> NoTree,
                  bboxFiltered |-> NoTree, result |-> EmptyResult]
            ELSE CHOOSE run \in {From4(visibleTree, paintFiltered) :
                                    paintFiltered \in {PaintOrderStage(visibleTree)}} : TRUE
    \* if (!rawTree) return empty; 2. const visibleTree = filterVisibleNodes(rawTree)
    IN IF rawTree = NoTree
       THEN [ran |-> <<"extractRawDOM">>, visibleTree |-> NoTree,
             paintFiltered |-> NoTree, bboxFiltered |-> NoTree,
             result |-> EmptyResult]
       ELSE CHOOSE run \in {From3(visibleTree) :
                               visibleTree \in {filterVisibleNodes(rawTree)}} : TRUE

\* processTree after the visibility filter, without the paint-order filter.
processVisible_NoPaintOrder(visibleTree) ==
    IF visibleTree = NoTree THEN NoTree
    ELSE filterByBboxPropagation(visibleTree)

\* if (!visibleTree) return null; paint-order filter, then bounding boxes.
processVisible(visibleTree) ==
    IF visibleTree = NoTree THEN NoTree
    ELSE CHOOSE bboxFiltered \in
             {filterByBboxPropagation(paintFiltered) :
                 paintFiltered \in {filterByPaintOrder(visibleTree)}} : TRUE

processTree(rawTree) ==
    CHOOSE bboxFiltered \in
        {processVisible(visibleTree) : visibleTree \in {filterVisibleNodes(rawTree)}} : TRUE

serializeDOMTree(tree) == serializeTree(tree)

\* ---------------------------------------------- the pipeline on its own
\* par makes 0, 1, ..., k a document order: a node's parent is the node
\* before it or one of that node's ancestors.
Preorders(k) ==
    LET RECURSIVE OnPathToRoot(_, _, _)
        OnPathToRoot(par, a, n) ==
            n = a \/ (n # RootNode /\ OnPathToRoot(par, a, par[n]))
    IN {par \in [1..k -> 0..(k - 1)] :
           \A i \in 1..k : par[i] < i /\ (i > 1 => OnPathToRoot(par, par[i], i - 1))}

\* What a node below the root can be.  The geometry of a node that fails its
\* own visibility check is read by no stage, so one geometry stands for all.
NodeProperties ==
    [visible : {TRUE}, interactive : BOOLEAN, rect : {{1}, {2}},
     paintOrder : {1, 2}, opaque : BOOLEAN]
    \cup [visible : {FALSE}, interactive : BOOLEAN, rect : {{1}},
          paintOrder : {1}, opaque : {FALSE}]

\* A tree an extraction can give: the root and k nodes below it, of shape par
\* and properties props; node n has the id 'n<n>'.
RawTree(k, root, par, props) ==
    LET DigitChar(n) == CASE n = 1 -> "1" [] n = 2 -> "2" [] n = 3 -> "3" [] OTHER -> "9"
    IN
    [i \in 1..(k + 1) |->
        IF i = 1 THEN RootRawNode(root)
        ELSE RawNode(i - 1, par[i - 1], props[i - 1].visible,
                     props[i - 1].interactive, props[i - 1].rect,
                     props[i - 1].paintOrder, props[i - 1].opaque,
                     Selector("id", "", <<"n", DigitChar(i - 1)>>, << >>))]

\* const rawTree = await extractRawDOM(page): a tree, or null.
ExtractRawDOM(rawTree) ==
    /\ llm.pc = "extractRawDOM"
    /\ llm' = [llm EXCEPT !.pc = "stages", !.rawTree = rawTree]
    /\ UNCHANGED <<kids, attrs, known, pageOpen, openSessions, proc, stored, prior, synth, srv>>

\* The rest of getLLMTree, which runs without a break.
RunStages ==
    LET run == GetLLMTree(llm.rawTree)
    IN /\ llm.pc = "stages"
       /\ llm' = [llm EXCEPT !.pc = "returned", !.ran = run.ran,
                             !.visibleTree = run.visibleTree,
                             !.paintFiltered = run.paintFiltered,
                             !.bboxFiltered = run.bboxFiltered,
                             !.result = run.result]
       /\ UNCHANGED <<kids, attrs, known, pageOpen, openSessions, proc, stored, prior, synth, srv>>

\* The caller's own processing of the same extraction: processTree(rawTree).
CallProcessTree ==
    /\ llm.pc = "returned"
    /\ llm.rawTree # NoTree
    /\ llm' = [llm EXCEPT !.pc = "processed", !.processed = processTree(llm.rawTree)]
    /\ UNCHANGED <<kids, attrs, known, pageOpen, openSessions, proc, stored, prior, synth, srv>>

\* serializeDOMTree(processed), for a tree.
CallSerializeDOMTree ==
    /\ llm.pc = "processed"
    /\ llm.processed # NoTree
    /\ llm' = [llm EXCEPT !.pc = "serialized", !.custom = serializeDOMTree(llm.processed)]
    /\ UNCHANGED <<kids, attrs, known, pageOpen, openSessions, proc, stored, prior, synth, srv>>

InitPipeline ==
    /\ EmptyPage
    /\ proc = [p \in Procs |-> Absent]
    /\ llm = [NoLLM EXCEPT !.pc = "extractRawDOM"]
    /\ srv = NoServer

NextPipeline ==
    \/ /\ llm.pc = "extractRawDOM"
       /\ \E k \in 0..MaxNodes :
             \E root \in BOOLEAN, par \in Preorders(k), props \in [1..k -> NodeProperties] :
                ExtractRawDOM(RawTree(k, root, par, props))
    \/ ExtractRawDOM(NoTree)
    \/ RunStages
    \/ CallProcessTree
    \/ CallSerializeDOMTree

SpecPipeline == InitPipeline /\ [][NextPipeline]_vars

\* ------------------------------------------ getLLMTreeWithBackendIds
\* What extractRawDOM reads from the live page: the body and its elements in
\* document order, each visible and interactive, none opaque, with the
\* selector its attributes and position give it now.
RawTreeOfPage ==
    <<RootRawNode(FALSE)>> \o
    [i \in 1..Len(DocOrder) |->
        RawNode(DocOrder[i], ParentElement(DocOrder[i]), TRUE, TRUE, {1}, 1, FALSE,
                BuildSelector(DocOrder[i]))]

\* The caller of getLLMTreeWithBackendIds; its resolveBackendIds runs in this
\* caller's frame.
TreeCaller == "p1"

\* getLLMTreeWithBackendIds(page, context, options) is called.
CallGetLLMTreeWithBackendIds ==
    /\ llm.pc \in {"idle", "done", "raised"}
    /\ llm' = [NoLLM EXCEPT !.pc = "getLLMTree"]
    /\ proc' = [proc EXCEPT ![TreeCaller] = Idle]
    /\ UNCHANGED <<kids, attrs, known, pageOpen, openSessions, stored, prior, synth, srv>>

\* const { tree, selectorMap } = await getLLMTree(page, options): one
\* extraction of the page as it is now (a tree or null) and the stages; on a
\* closed page the extraction rejects.
GetLLMTreeOfPage ==
    /\ llm.pc = "getLLMTree"
    /\ IF pageOpen
       THEN \E rawTree \in {RawTreeOfPage, NoTree} :
               LET run == GetLLMTree(rawTree)
               IN llm' = [llm EXCEPT !.pc = "size", !.rawTree = rawTree,
                                     !.ran = run.ran,
                                     !.visibleTree = run.visibleTree,
                                     !.paintFiltered = run.paintFiltered,
                                     !.bboxFiltered = run.bboxFiltered,
                                     !.result = run.result]
       ELSE llm' = [llm EXCEPT !.pc = "raised"]
    /\ UNCHANGED <<kids, attrs, known, pageOpen, openSessions, proc, stored, prior, synth, srv>>

\* SelectorMapIsEmpty never true: resolveBackendIds is called for every map.
SelectorMapIsEmpty_Never(selectorMap) == FALSE

\* if (selectorMap.size === 0)
SelectorMapIsEmpty(selectorMap) == Len(selectorMap) = 0

\* After getLLMTree: an empty selector map returns at once with a new empty
\* backendNodeMap; otherwise resolveBackendIds(page, context, selectorMap) is
\* called and runs up to its first await.
ResumeWithTree ==
    /\ llm.pc = "size"
    /\ IF SelectorMapIsEmpty(llm.result.selectorMap)
       THEN /\ llm' = [llm EXCEPT !.pc = "done",
                                  !.out = [tree |-> llm.result.tree,
                                           selectorMap |-> llm.result.selectorMap,
                                           backendNodeMap |-> << >>]]
            /\ proc' = proc
       ELSE /\ llm' = [llm EXCEPT !.pc = "resolveBackendIds", !.resolved = TRUE]
            /\ proc' = [proc EXCEPT ![TreeCaller] =
                            Frame(RBI, "newCDPSession", llm.result.selectorMap, 0)]
    /\ UNCHANGED <<kids, attrs, known, pageOpen, openSessions, stored, prior, synth, srv>>

\* resolveBackendIds has settled: return { tree, selectorMap, backendNodeMap },
\* or pass its exception on.
ReturnWithBackendIds ==
    LET r == proc[TreeCaller]
    IN /\ llm.pc = "resolveBackendIds"
       /\ r.pc = "done"
       /\ llm' = IF r.outcome = "returned"
                 THEN [llm EXCEPT !.pc = "done",
                                  !.out = [tree |-> llm.result.tree,
                                           selectorMap |-> llm.result.selectorMap,
                                           backendNodeMap |-> r.indexToBackendId]]
                 ELSE [llm EXCEPT !.pc = "raised"]
       /\ UNCHANGED <<kids, attrs, known, pageOpen, openSessions, proc, stored, prior, synth, srv>>

InitTree ==
    /\ EmptyPage
    /\ proc = [p \in Procs |-> IF p = TreeCaller THEN Idle ELSE Absent]
    /\ llm = [NoLLM EXCEPT !.pc = "idle"]
    /\ srv = NoServer

NextTree ==
    \/ CallGetLLMTreeWithBackendIds
    \/ GetLLMTreeOfPage
    \/ ResumeWithTree
    \/ NewCDPSession(TreeCaller)
    \/ GetDocument(TreeCaller)
    \/ QuerySelectorCommand(TreeCaller)
    \/ DescribeNode(TreeCaller)
    \/ Detach(TreeCaller)
    \/ ReturnWithBackendIds
    \/ PageStep

SpecTree == InitTree /\ [][NextTree]_vars

\* -------------------------------------------------------------- serve
\* name.length > 256 is rejected.
MaxNameLength == 256
\* Page names (strings as sequences of characters).
ValidNames == {<<"a">>, <<"b">>}

\* NameRejected accepting every name.
NameRejected_Never(body) == FALSE

\* NameRejected without the length limit.
NameRejected_NoLimit(body) == body.typeofName # "string" \/ Len(body.name) = 0

\* !name || typeof name !== "string"; name.length === 0; name.length > 256
NameRejected(body) ==
    \/ body.typeofName # "string"
    \/ Len(body.name) = 0
    \/ Len(body.name) > MaxNameLength

\* A request: its route, the name it carries with the name's typeof and,
\* for an upgrade, whether req.url starts with "/devtools".  The bodies of
\* POST /pages are the usable names, the empty string, a string of 257
\* characters, a number, and a body without a name.
Requests ==
    LET Request(kind, name, typeofName, devtools) ==
            [kind |-> kind, name |-> name, typeofName |-> typeofName,
             devtools |-> devtools]
        LongName == [k \in 1..(MaxNameLength + 1) |-> "a"]
    IN {Request("GET /", << >>, "undefined", FALSE),
        Request("GET /pages", << >>, "undefined", FALSE)}
       \cup {Request("POST /pages", name, "string", FALSE) :
                 name \in ValidNames \cup {<< >>, LongName}}
       \cup {Request("POST /pages", << >>, typeofName, FALSE) :
                 typeofName \in {"undefined", "number"}}
       \cup {Request("DELETE /pages/:name", name, "string", FALSE) : name \in ValidNames}
       \cup {Request("upgrade", << >>, "undefined", devtools) : devtools \in BOOLEAN}

NoTargetId == << >>
\* targetInfo.targetId of a page: one per page.
TargetIdOf(page) == <<"target", page>>
NoEntry == [page |-> 0, targetId |-> NoTargetId]

\* A request being handled: the await it is at, its page, and its answer
\* (listed: the pages of a GET /pages response).  epoch is the number of
\* times the name had been unregistered when the request was answered.
Handling(req) ==
    [kind |-> req.kind, name |-> req.name, typeofName |-> req.typeofName,
     devtools |-> req.devtools, pc |-> "arrived", page |-> 0, status |-> 0, targetId |-> NoTargetId,
     wsEndpoint |-> FALSE, epoch |-> 0, listed |-> {}]

\* launchedBy is the slot of the request that called launchBrowser, 0 for
\* nobody, and ByServe for serve itself.
ByServe == 0 - 1

\* launchBrowser() up to its first await.
LaunchBrowser(s, by) ==
    IF s.context THEN s
    ELSE [s EXCEPT !.launch = "launchPersistentContext", !.launches = @ + 1,
                   !.launchedBy = by]

\* launchBrowser settles: its promise resolves or rejects, and a serve that
\* awaits it (lazy = false) goes on to listen and return, or rejects.
LaunchSettled(s, ok) ==
    [s EXCEPT !.launch = IF ok THEN "launched" ELSE "failed",
              !.wsEndpoint = ok,
              !.browserLaunching = IF @ = "pending"
                                   THEN (IF ok THEN "resolved" ELSE "rejected")
                                   ELSE @,
              !.phase = IF @ = "launching"
                        THEN (IF ok THEN "listening" ELSE "rejected")
                        ELSE @]

\* res.json(...) / res.status(...).json(...) / the end of an upgrade.
Respond(s, i, status) == [s EXCEPT !.reqs[i].pc = "done", !.reqs[i].status = status]

\* const response = { wsEndpoint, name, targetId: entry.targetId }
PostResponse(s, i, entry) ==
    [Respond(s, i, 200) EXCEPT !.reqs[i].targetId = entry.targetId,
                               !.reqs[i].wsEndpoint = s.wsEndpoint,
                               !.reqs[i].epoch = s.epoch[s.reqs[i].name]]

\* A handler after 'await ensureBrowser()' has resolved.
AfterEnsureBrowser(s, i) ==
    LET r == s.reqs[i]
    IN CASE r.kind = "GET /" ->
                [Respond(s, i, 200) EXCEPT !.reqs[i].wsEndpoint = s.wsEndpoint]
         [] r.kind = "upgrade" -> Respond(s, i, 101)
         [] OTHER ->
                IF s.registry[r.name] # NoEntry
                THEN PostResponse(s, i, s.registry[r.name])
                ELSE [s EXCEPT !.reqs[i].pc = "newPage"]

\* ensureBrowser without the browserLaunching check.
EnsureBrowser_NoDedup(s, i) ==
    IF s.context THEN AfterEnsureBrowser(s, i)
    ELSE [LaunchBrowser([s EXCEPT !.browserLaunching = "pending"], i)
             EXCEPT !.reqs[i].pc = "awaitLaunch"]

\* ensureBrowser(): nothing to do with a context; wait for a launch under
\* way; otherwise start the launch and wait for it.
EnsureBrowser(s, i) ==
    IF s.context THEN AfterEnsureBrowser(s, i)
    ELSE IF s.browserLaunching # "null"
    THEN [s EXCEPT !.reqs[i].pc = "awaitLaunch"]
    ELSE [LaunchBrowser([s EXCEPT !.browserLaunching = "pending"], i)
             EXCEPT !.reqs[i].pc = "awaitLaunch"]

\* The handlers up to their first await.
HandleRequest(s, i) ==
    LET r == s.reqs[i]
    IN CASE r.kind = "GET /pages" ->
                \* pages: Array.from(registry.keys())
                [Respond(s, i, 200) EXCEPT
                    !.reqs[i].listed = {name \in DOMAIN s.registry :
                                           s.registry[name] # NoEntry}]
         [] r.kind = "DELETE /pages/:name" ->
                IF s.registry[r.name] = NoEntry THEN Respond(s, i, 404)
                ELSE [s EXCEPT !.reqs[i].pc = "close",
                               !.reqs[i].page = s.registry[r.name].page]
         [] r.kind = "POST /pages" /\ NameRejected(r) -> Respond(s, i, 400)
         [] r.kind = "upgrade" /\ ~r.devtools -> Respond(s, i, 0)
         [] OTHER -> EnsureBrowser(s, i)

\* registry.delete(name) leaving the entry in place.
RegistryDelete_Keeps(s, name) == s

\* registry.delete(name)
RegistryDelete(s, name) ==
    IF s.registry[name] = NoEntry THEN s
    ELSE [s EXCEPT !.registry[name] = NoEntry, !.epoch[name] = @ + 1]

\* A page closes; its "close" listener, once installed, deletes the name it
\* was created for.
ClosePage(s, page) ==
    IF ~s.pages[page].open THEN s
    ELSE IF s.pages[page].listener
    THEN RegistryDelete([s EXCEPT !.pages[page].open = FALSE], s.pages[page].name)
    ELSE [s EXCEPT !.pages[page].open = FALSE]

\* serve(options) up to 'await launchBrowser()' (lazy = false) or to its
\* return (lazy = true).
ServeStart ==
    /\ srv.phase = "start"
    /\ srv' = IF srv.lazy THEN [srv EXCEPT !.phase = "listening"]
              ELSE LaunchBrowser([srv EXCEPT !.phase = "launching"], ByServe)
    /\ UNCHANGED <<kids, attrs, known, pageOpen, openSessions, proc, stored, prior, synth, llm>>

\* context = await chromium.launchPersistentContext(...)
LaunchPersistentContextSettles ==
    /\ srv.launch = "launchPersistentContext"
    /\ \E ok \in BOOLEAN :
          srv' = IF ok THEN [srv EXCEPT !.context = TRUE, !.launch = "fetchVersion"]
                 ELSE LaunchSettled(srv, FALSE)
    /\ UNCHANGED <<kids, attrs, known, pageOpen, openSessions, proc, stored, prior, synth, llm>>

\* await fetchWithRetry(...); wsEndpoint = ...
FetchVersionSettles ==
    /\ srv.launch = "fetchVersion"
    /\ \E ok \in BOOLEAN : srv' = LaunchSettled(srv, ok)
    /\ UNCHANGED <<kids, attrs, known, pageOpen, openSessions, proc, stored, prior, synth, llm>>

\* A request arrives at the listening server and its handler runs up to its
\* first await.
Arrive(req) ==
    /\ srv.phase = "listening"
    /\ ~srv.serverClosed
    /\ Len(srv.reqs) < MaxRequests
    /\ srv' = HandleRequest([srv EXCEPT !.reqs = Append(@, Handling(req))],
                            Len(srv.reqs) + 1)
    /\ UNCHANGED <<kids, attrs, known, pageOpen, openSessions, proc, stored, prior, synth, llm>>

\* 'await browserLaunching' settles for a waiting request; a rejection ends
\* an upgrade in socket.destroy() and leaves an HTTP request unanswered.
ResumeAfterLaunch(i) ==
    /\ i \in DOMAIN srv.reqs
    /\ srv.reqs[i].pc = "awaitLaunch"
    /\ srv.browserLaunching \in {"resolved", "rejected"}
    /\ srv' = IF srv.browserLaunching = "resolved" THEN AfterEnsureBrowser(srv, i)
              ELSE IF srv.reqs[i].kind = "upgrade" THEN Respond(srv, i, 0)
              ELSE Respond(srv, i, 500)
    /\ UNCHANGED <<kids, attrs, known, pageOpen, openSessions, proc, stored, prior, synth, llm>>

\* const page = await withTimeout(context.newPage(), ...); newPage rejects
\* on a closed context.
NewPageSettles(i) ==
    /\ i \in DOMAIN srv.reqs
    /\ srv.reqs[i].pc = "newPage"
    /\ srv' = IF srv.contextClosed THEN Respond(srv, i, 500)
              ELSE [srv EXCEPT !.pages = Append(@, [name |-> srv.reqs[i].name,
                                                    open |-> TRUE, listener |-> FALSE]),
                               !.reqs[i].page = Len(srv.pages) + 1,
                               !.reqs[i].pc = "getTargetId"]
    /\ UNCHANGED <<kids, attrs, known, pageOpen, openSessions, proc, stored, prior, synth, llm>>

\* const targetId = await getTargetId(page); registry.set(name, entry);
\* page.on("close", ...); res.json(response).  getTargetId rejects for a page
\* closed meanwhile.
GetTargetIdSettles(i) ==
    /\ i \in DOMAIN srv.reqs
    /\ srv.reqs[i].pc = "getTargetId"
    /\ LET page == srv.reqs[i].page
           entry == [page |-> page, targetId |-> TargetIdOf(page)]
       IN srv' = IF srv.pages[page].open
                 THEN PostResponse([srv EXCEPT !.registry[srv.reqs[i].name] = entry,
                                               !.pages[page].listener = TRUE],
                                   i, entry)
                 ELSE Respond(srv, i, 500)
    /\ UNCHANGED <<kids, attrs, known, pageOpen, openSessions, proc, stored, prior, synth, llm>>

\* await entry.page.close(); registry.delete(name); res.json({ success: true })
DeleteCloses(i) ==
    /\ i \in DOMAIN srv.reqs
    /\ srv.reqs[i].pc = "close"
    /\ srv' = Respond(RegistryDelete(ClosePage(srv, srv.reqs[i].page), srv.reqs[i].name),
                      i, 200)
    /\ UNCHANGED <<kids, attrs, known, pageOpen, openSessions, proc, stored, prior, synth, llm>>

\* The user closes a page's window.
UserClosesPage(page) ==
    /\ page \in DOMAIN srv.pages
    /\ srv.pages[page].open
    /\ srv' = ClosePage(srv, page)
    /\ UNCHANGED <<kids, attrs, known, pageOpen, openSessions, proc, stored, prior, synth, llm>>

InitServe ==
    /\ EmptyPage
    /\ proc = [p \in Procs |-> Absent]
    /\ llm = NoLLM
    /\ \E lazy \in BOOLEAN, RequestNames \in {{req.name : req \in Requests}} :
          srv = [NoServer EXCEPT !.phase = "start", !.lazy = lazy,
                                 !.registry = [name \in RequestNames |-> NoEntry],
                                 !.epoch = [name \in RequestNames |-> 0]]

NextServe ==
    \/ ServeStart
    \/ LaunchPersistentContextSettles
    \/ FetchVersionSettles
    \/ \E req \in Requests : Arrive(req)
    \/ \E i \in 1..MaxRequests :
          \/ ResumeAfterLaunch(i)
          \/ NewPageSettles(i)
          \/ GetTargetIdSettles(i)
          \/ DeleteCloses(i)
    \/ \E page \in 1..MaxRequests : UserClosesPage(page)

SpecServe == InitServe /\ [][NextServe]_vars

\* ----------------------------------------------------------------- shutdown
\* The end of cleanup: server.close(); the promise of the running cleanup
\* resolves and its awaiter goes on, stop() to resolve, a signal or error
\* handler to process.exit.
CleanupDone(s) ==
    LET Resume(c) == IF c.pc # "cleanup" THEN c
                     ELSE [c EXCEPT !.pc = IF c.kind = "stop" THEN "resolved" ELSE "exit"]
    IN [s EXCEPT !.cleanup = "done", !.serverClosed = TRUE,
                 !.callers = [k \in DOMAIN s.callers |-> Resume(s.callers[k])],
                 !.exited = \/ s.exited
                            \/ \E k \in DOMAIN s.callers :
                                  s.callers[k].pc = "cleanup" /\ s.callers[k].kind # "stop"]

\* cleanup from 'for (const entry of registry.values())' to its next await:
\* entry.page.close() of an entry (the Map's iteration order is left open),
\* or, past the loop, registry.clear() of the then empty registry and
\* context.close() if there is a context.
CleanupLoop(s) ==
    LET registered == {name \in DOMAIN s.registry : s.registry[name] # NoEntry}
    IN IF registered # {}
       THEN {[s EXCEPT !.cleanup = "closePage", !.closing = s.registry[name].page] :
                name \in registered}
       ELSE {IF s.context THEN [s EXCEPT !.cleanup = "closeContext"]
             ELSE CleanupDone(s)}

\* 'await cleanup()' by stop() or by a handler, up to the first await that
\* does not settle at once: a cleanup that finds cleaningUp set returns, and
\* its caller goes on.
AwaitCleanup(s, kind) ==
    IF s.cleaningUp
    THEN {[s EXCEPT !.callers = Append(@, [kind |-> kind,
                                           pc |-> IF kind = "stop" THEN "resolved"
                                                  ELSE "exit"]),
                    !.exited = kind # "stop"]}
    ELSE CleanupLoop([s EXCEPT !.cleaningUp = TRUE, !.cleanups = @ + 1,
                               !.callers = Append(@, [kind |-> kind, pc |-> "cleanup"])])

\* stop(): removeHandlers(); await cleanup()
Stop ==
    /\ srv.phase = "listening"
    /\ ~srv.exited
    /\ Len(srv.callers) < MaxCalls
    /\ srv' \in AwaitCleanup([srv EXCEPT !.handlersRemoved = TRUE], "stop")
    /\ UNCHANGED <<kids, attrs, known, pageOpen, openSessions, proc, stored, prior, synth, llm>>

\* signalHandler (SIGINT, SIGTERM, SIGHUP) and errorHandler
\* (uncaughtException, unhandledRejection): await cleanup(); process.exit(..)
SignalHandler(kind) ==
    /\ srv.phase = "listening"
    /\ ~srv.exited
    /\ ~srv.handlersRemoved
    /\ Len(srv.callers) < MaxCalls
    /\ srv' \in AwaitCleanup(srv, kind)
    /\ UNCHANGED <<kids, attrs, known, pageOpen, openSessions, proc, stored, prior, synth, llm>>

\* 'await entry.page.close()' of cleanup settles (a failure is caught) and
\* the loop goes on.
CleanupPageClosed ==
    /\ srv.cleanup = "closePage"
    /\ ~srv.exited
    /\ srv' \in CleanupLoop(ClosePage(srv, srv.closing))
    /\ UNCHANGED <<kids, attrs, known, pageOpen, openSessions, proc, stored, prior, synth, llm>>

\* 'await context.close()' of cleanup settles: the context's pages close,
\* their close listeners run, and cleanup ends.
CleanupContextClosed ==
    /\ srv.cleanup = "closeContext"
    /\ ~srv.exited
    /\ LET RECURSIVE CloseAll(_, _)
           CloseAll(s, page) == IF page = 0 THEN s
                                ELSE CloseAll(ClosePage(s, page), page - 1)
       IN srv' = CleanupDone([CloseAll(srv, Len(srv.pages)) EXCEPT !.contextClosed = TRUE])
    /\ UNCHANGED <<kids, attrs, known, pageOpen, openSessions, proc, stored, prior, synth, llm>>

\* The server with its shutdown; nothing runs after process.exit.
NextShutdown ==
    \/ ~srv.exited /\ NextServe
    \/ Stop
    \/ \E kind \in {"signal", "error"} : SignalHandler(kind)
    \/ CleanupPageClosed
    \/ CleanupContextClosed

SpecShutdown == InitServe /\ [][NextShutdown]_vars

\* ---------------------------------------------------------- WebSocket proxy
\* One proxied connection, srv.ws: the readyState of the client's socket and
\* of the socket to Chrome, chromeReady and messageQueue of the connection
\* callback, the messages handed to chromeWs.send in order (sent, each with
\* the frame type asked for), and the data of the messages received from the
\* client in order (arrived).

\* chromeWs.on("open"): chromeReady = true; the queued messages are sent in
\* order, with the frame type send chooses by itself, and the queue is
\* emptied.
ChromeOpen ==
    /\ srv.ws.chromeWs = "CONNECTING"
    /\ srv' = [srv EXCEPT !.ws.chromeWs = "OPEN", !.ws.chromeReady = TRUE,
                          !.ws.sent = @ \o [k \in DOMAIN srv.ws.messageQueue |->
                                              [data |-> srv.ws.messageQueue[k],
                                               binary |-> "default"]],
                          !.ws.messageQueue = << >>]
    /\ UNCHANGED <<kids, attrs, known, pageOpen, openSessions, proc, stored, prior, synth, llm>>

\* clientWs.on("message") dropping what it cannot send.
ClientMessage_Drops(data, isBinary) ==
    /\ srv.ws.clientWs \in {"OPEN", "CLOSING"}
    /\ Len(srv.ws.arrived) < MaxMessages
    /\ srv' = IF srv.ws.chromeReady /\ srv.ws.chromeWs = "OPEN"
              THEN [srv EXCEPT !.ws.arrived = Append(@, data),
                               !.ws.sent = Append(@, [data |-> data, binary |-> isBinary])]
              ELSE [srv EXCEPT !.ws.arrived = Append(@, data)]
    /\ UNCHANGED <<kids, attrs, known, pageOpen, openSessions, proc, stored, prior, synth, llm>>

\* clientWs.on("message"): sent on when Chrome's socket is ready and open,
\* queued otherwise.  A socket being closed by the proxy still delivers the
\* messages that were under way.
ClientMessage(data, isBinary) ==
    /\ srv.ws.clientWs \in {"OPEN", "CLOSING"}
    /\ Len(srv.ws.arrived) < MaxMessages
    /\ srv' = IF srv.ws.chromeReady /\ srv.ws.chromeWs = "OPEN"
              THEN [srv EXCEPT !.ws.arrived = Append(@, data),
                               !.ws.sent = Append(@, [data |-> data, binary |-> isBinary])]
              ELSE [srv EXCEPT !.ws.arrived = Append(@, data),
                               !.ws.messageQueue = Append(@, data)]
    /\ UNCHANGED <<kids, attrs, known, pageOpen, openSessions, proc, stored, prior, synth, llm>>

\* A socket ends with "error" and "close" or with "close" alone, and the
\* handlers close the other one: chromeWs.on("close"/"error") calls
\* clientWs.close(..), clientWs.on("close"/"error") calls chromeWs.close(),
\* which aborts a connection that is not yet open.
SocketEnds(side) ==
    /\ side = "chromeWs" => srv.ws.chromeWs \in {"CONNECTING", "OPEN", "CLOSING"}
    /\ side = "clientWs" => srv.ws.clientWs \in {"OPEN", "CLOSING"}
    /\ srv' = IF side = "chromeWs"
              THEN [srv EXCEPT !.ws.chromeWs = "CLOSED",
                               !.ws.clientWs = IF @ = "OPEN" THEN "CLOSING" ELSE @]
              ELSE [srv EXCEPT !.ws.clientWs = "CLOSED",
                               !.ws.chromeWs = IF @ = "OPEN" THEN "CLOSING"
                                               ELSE IF @ = "CONNECTING" THEN "CLOSED"
                                               ELSE @]
    /\ UNCHANGED <<kids, attrs, known, pageOpen, openSessions, proc, stored, prior, synth, llm>>

\* wss.on("connection") has run: the client's socket is open, the socket
\* to Chrome is connecting, nothing is queued.
InitProxy ==
    /\ EmptyPage
    /\ proc = [p \in Procs |-> Absent]
    /\ llm = NoLLM
    /\ srv = [NoServer EXCEPT !.ws.clientWs = "OPEN", !.ws.chromeWs = "CONNECTING"]

NextProxy ==
    \/ ChromeOpen
    \/ \E data \in {"x", "y"}, isBinary \in {"binary", "text"} : ClientMessage(data, isBinary)
    \/ \E side \in {"chromeWs", "clientWs"} : SocketEnds(side)

SpecProxy == InitProxy /\ [][NextProxy]_vars

\* ================================================================== claims
Done(p, op) == proc[p].op = op /\ proc[p].pc = "done"
Returned(p, op) == Done(p, op) /\ proc[p].outcome = "returned"
Raised(p, op) == Done(p, op) /\ proc[p].outcome = "raised"
NoOperationInFlight == \A p \in Procs : proc[p].pc \in {"idle", "absent", "done"}

\* C1: an operation that has returned or raised holds no attached session,
\* and whenever no operation is in flight no session is open.
C1_ChannelsReleased ==
    /\ \A p \in Procs : proc[p].pc \in {"idle", "absent", "done"} =>
                           proc[p].session # "attached"
    /\ NoOperationInFlight => openSessions = 0

\* C1 witness: on an open page, one caller's resolveBackendIds has returned
\* after swallowing an entry's exception and the other's
\* resolveSelectorFromBackendId has raised from an engine command, and no
\* session is open.
C1_Witness ==
    /\ pageOpen
    /\ Returned("p1", RBI) /\ proc["p1"].caught
    /\ Raised("p2", RSF) /\ proc["p2"].error = "resolveNode"
    /\ openSessions = 0

\* C2 as stated: the returned map has an entry for index i exactly when the
\* query for entry i found an element.
C2_EntryIffFound ==
    \A p \in Procs : Returned(p, RBI) =>
        DOMAIN proc[p].indexToBackendId = proc[p].found

\* C2 amended: the returned map has an entry for index i exactly when the
\* query for entry i found an element and the engine then described that
\* node; every entry was processed, every entry of the result is the handle
\* of an element (never 0), and the result's keys are keys of the input.
C2_EntryIffFoundAndDescribed ==
    \A p \in Procs : Returned(p, RBI) =>
        LET r == proc[p]
        IN /\ r.k = Len(r.selectorMap)
           /\ DOMAIN r.indexToBackendId = r.found \cap r.described
           /\ r.found \subseteq DOMAIN r.selectorMap
           /\ \A i \in DOMAIN r.indexToBackendId : r.indexToBackendId[i] \in ElemHandles
           /\ Cardinality(DOMAIN r.indexToBackendId) <= Len(r.selectorMap)

\* C2 witness: a map of two selectors whose first entry failed and whose
\* second was resolved: the result holds index 2 alone.
C2_Witness ==
    \E p \in Procs :
        /\ Returned(p, RBI)
        /\ Len(proc[p].selectorMap) = 2
        /\ proc[p].found = {2}
        /\ DOMAIN proc[p].indexToBackendId = {2}

\* C3: resolveBackendIds raises only when opening the session, getting the
\* document or detaching failed, never from an entry; on an open page it
\* returns a map.
C3_NoRaiseFromEntries ==
    \A p \in Procs :
        /\ Raised(p, RBI) => proc[p].error \in {"newCDPSession", "getDocument", "detach"}
        /\ Done(p, RBI) /\ pageOpen => proc[p].outcome = "returned"

\* C3 witness: a call with two selectors, an entry's exception swallowed and
\* nothing resolved, has returned the empty map.
C3_Witness ==
    \E p \in Procs :
        /\ Returned(p, RBI)
        /\ Len(proc[p].selectorMap) = 2
        /\ proc[p].caught
        /\ proc[p].indexToBackendId = << >>

\* C4: with the page open and no navigation since the handle was stored,
\* isBackendNodeIdValid on a handle kept from a resolveBackendIds result
\* returns true.
C4_ResolvedHandlesValid ==
    \A p \in Procs :
        Done(p, IBV) /\ pageOpen /\ proc[p].backendNodeId \in stored =>
            proc[p].outcome = "returned" /\ proc[p].valid

\* C4 witness: isBackendNodeIdValid has returned for a stored handle.
C4_Witness ==
    \E p \in Procs :
        Returned(p, IBV) /\ pageOpen /\ proc[p].backendNodeId \in stored

\* C5 as stated: isBackendNodeIdValid never raises, whatever the engine and
\* the session do.
C5_NeverRaises ==
    \A p \in Procs : Done(p, IBV) => proc[p].outcome = "returned"

\* The step in which resolveSelectorFromBackendId's call p gets the selector
\* the page function built for element el.
Synthesizes(p, el) ==
    /\ proc[p].op = RSF
    /\ proc[p].pc = "callFunctionOn"
    /\ proc'[p].pc = "releaseObjectGroup"
    /\ ~proc'[p].exceptionDetails
    /\ NodeOfObjectId(proc[p].objectId) = el

\* The step in which isBackendNodeIdValid's call p gets the engine's answer
\* for the handle of element el.
ChecksValidity(p, el) ==
    /\ proc[p].op = IBV
    /\ proc[p].pc = "resolveNode"
    /\ proc'[p].pc = "detach"
    /\ pageOpen
    /\ NodeOfBackendId(proc[p].backendNodeId) = el

\* C6 as stated: for an element removed from the document whose handle the
\* engine still knows, the validity check answers true, and the selector
\* synthesized now is the one synthesized while it was attached and matches
\* nothing in the live document.
C6_DetachedKeepsSelector ==
    [][\A p \in Procs, el \in Elems :
          /\ (ChecksValidity(p, el) /\ el \in known /\ ~Attached(el)) => proc'[p].valid
          /\ (Synthesizes(p, el) /\ ~Attached(el) /\ prior.el = el /\ prior.attached) =>
                /\ proc'[p].value = prior.selector
                /\ QuerySelector(proc'[p].value) = None]_vars

\* C7 as stated: for an attached element whose handle was kept from a
\* resolveBackendIds result, the selector synthesized from the handle
\* denotes, as first match in the live document, that element.
C7_SelectorDenotesElement ==
    [][\A p \in Procs, el \in Elems :
          (Synthesizes(p, el) /\ Attached(el) /\ BackendIdOf(el) \in stored) =>
              QuerySelector(proc'[p].value) = el]_vars

\* C8: resolveSelectorFromBackendId returns a selector only for a handle the
\* engine resolved to an element and a synthesis without exception: the
\* handle is an element's, the engine still holds that node unless a
\* navigation intervened, and the value is a selector.
C8_RaisesWhenUnresolvable ==
    \A p \in Procs : Returned(p, RSF) =>
        LET r == proc[p]
        IN /\ r.backendNodeId \in ElemHandles
           /\ r.objectId # 0
           /\ ~r.exceptionDetails
           /\ r.value # NoSelector
           /\ ~r.stale => NodeOfBackendId(r.backendNodeId) \in known

\* C8 witness: on an open page the call has raised from DOM.resolveNode for
\* the handle of an element the page has created.
C8_Witness ==
    \E p \in Procs :
        /\ Raised(p, RSF)
        /\ pageOpen
        /\ proc[p].error = "resolveNode"
        /\ proc[p].backendNodeId \in ElemHandles
        /\ Created(NodeOfBackendId(proc[p].backendNodeId))

\* The synthesis function has been applied to element el of the drawn document.
Synthesized(el) == synth.el = el /\ el \in Elems
HasFormControlName(el) ==
    attrs[el].name # NoValue /\ ToLowerCase(attrs[el].tagName) \in {"input", "select", "textarea"}

\* C9: the synthesized selector is the id form when the element has an id,
\* else the data-testid form when it has a data-testid, else the
\* tag[name=...] form when it is an input, select or textarea with a name,
\* and the path (or bare tag) form only when none of the three applies.
C9_PriorityLaw ==
    \A el \in Elems : Synthesized(el) =>
        LET this == attrs[el]
            s == synth.selector
        IN /\ this.id # NoValue => s.form = "id" /\ s.text = this.id
           /\ (this.id = NoValue /\ this.testid # NoValue) =>
                 s.form = "testid" /\ s.text = this.testid
           /\ (this.id = NoValue /\ this.testid = NoValue /\ HasFormControlName(el)) =>
                 s.form = "name" /\ s.tag = ToLowerCase(this.tagName) /\ s.text = this.name
           /\ (this.id = NoValue /\ this.testid = NoValue /\ ~HasFormControlName(el)) <=>
                 s.form \in {"path", "tag"}

\* C9 witness: an element with an id, a data-testid and a form-control name
\* got the id form.
C9_Witness ==
    \E el \in Elems :
        /\ Synthesized(el)
        /\ attrs[el].id # NoValue /\ attrs[el].testid # NoValue /\ HasFormControlName(el)
        /\ synth.selector.form = "id"

\* The elements from the body's child down to el, for an attached el.
RECURSIVE ChainTo(_)
ChainTo(el) ==
    IF ParentElement(el) \in Elems THEN Append(ChainTo(ParentElement(el)), el) ELSE <<el>>

\* The segment the claim gives an element: its tag, with its 1-based position
\* among the same-tag children of its parent when there are several.
ExpectedSegment(el) ==
    LET tag == ToLowerCase(attrs[el].tagName)
        sibs == kids[ParentElement(el)]
        same == {j \in 1..Len(sibs) : ToLowerCase(attrs[sibs[j]].tagName) = tag}
        at == CHOOSE j \in 1..Len(sibs) : sibs[j] = el
    IN [tag |-> tag,
        nth |-> IF Cardinality(same) > 1 THEN Cardinality({j \in same : j <= at}) ELSE 0]

\* C10: for an attached element with no id, no data-testid and no
\* form-control name the selector is the path form with one segment per level
\* from the body's child down to the element, each the expected segment, and
\* querying it yields exactly that element.
C10_PathRoundTrip ==
    \A el \in Elems :
        (/\ Synthesized(el) /\ Attached(el)
         /\ attrs[el].id = NoValue /\ attrs[el].testid = NoValue
         /\ ~HasFormControlName(el)) =>
            /\ synth.selector.form = "path"
            /\ Len(synth.selector.path) = Len(ChainTo(el))
            /\ \A i \in 1..Len(ChainTo(el)) :
                  synth.selector.path[i] = ExpectedSegment(ChainTo(el)[i])
            /\ SelectorParses(synth.selector)
            /\ synth.queried => synth.hit = el

\* C10 witness: the second of two same-tag siblings, one level below a child
\* of the body, was synthesized as 'body > x > y:nth-of-type(2)' and the
\* query of that selector hit it.
C10_Witness ==
    \E el \in Elems :
        /\ Synthesized(el) /\ Attached(el)
        /\ synth.selector.form = "path"
        /\ Len(synth.selector.path) = 2
        /\ synth.selector.path[2].nth = 2
        /\ synth.queried /\ synth.hit = el

DecidingValue(el) ==
    IF attrs[el].id # NoValue THEN attrs[el].id
    ELSE IF attrs[el].testid # NoValue THEN attrs[el].testid
    ELSE IF HasFormControlName(el) THEN attrs[el].name
    ELSE NoValue

\* No special character of the text stands without a backslash before it.
RECURSIVE SpecialsEscaped(_)
SpecialsEscaped(text) ==
    IF text = << >> THEN TRUE
    ELSE IF Head(text) = "\\" THEN Len(text) >= 2 /\ SpecialsEscaped(SubSeq(text, 3, Len(text)))
    ELSE Head(text) \notin CssSpecial /\ SpecialsEscaped(Tail(text))

\* C12 as stated: for an element whose id, data-testid or form-control name
\* has a CSS special character, every special character of the value is
\* backslash-escaped in the synthesized selector, the engine accepts the
\* selector and querying it yields that element.
C12_EscapingLaw ==
    \A el \in Elems :
        (Synthesized(el) /\ Range(DecidingValue(el)) \cap CssSpecial # {}) =>
            /\ SpecialsEscaped(synth.selector.text)
            /\ SelectorParses(synth.selector)
            /\ synth.queried => synth.hit = el

\* Caller p's frame changes by a step of its own (a navigation only marks it
\* stale, a page close only closes its session).
OwnStep(p) ==
    [proc'[p] EXCEPT !.stale = proc[p].stale, !.session = proc[p].session] # proc[p]

\* C13: within one resolveBackendIds call the entry index only moves from k to
\* k + 1, and only from the end of entry k's commands to the query of entry
\* k + 1; an entry's query is followed by its describeNode, the next entry or
\* the end of the loop, never by a second query of the same entry; a node is
\* described only right after its entry's query; and whatever the call has
\* found or resolved belongs to entries up to k.
C13_SequentialOnce ==
    [][\A p \in Procs :
          (proc[p].op = RBI /\ proc'[p].op = RBI) =>
              LET r == proc[p]
                  next == proc'[p]
              IN /\ next.k \in {r.k, r.k + 1}
                 /\ next.k = r.k + 1 =>
                       /\ r.pc \in {"getDocument", "querySelector", "describeNode"}
                       /\ next.pc = "querySelector"
                 /\ (r.pc = "querySelector" /\ OwnStep(p)) =>
                       \/ next.k = r.k + 1
                       \/ next.k = r.k /\ next.pc \in {"describeNode", "detach"}
                 /\ (next.pc = "describeNode" /\ OwnStep(p)) =>
                       r.pc = "querySelector" /\ next.k = r.k
                 /\ next.k <= Len(next.selectorMap)
                 /\ next.found \subseteq 1..next.k
                 /\ DOMAIN next.indexToBackendId \subseteq next.found]_vars

\* C13 witness: a call with two selectors has queried entry 1, which matched
\* nothing, then queried and resolved entry 2, and returned.
C13_Witness ==
    \E p \in Procs :
        /\ Returned(p, RBI)
        /\ proc[p].k = 2
        /\ DOMAIN proc[p].indexToBackendId = {2}
        /\ ~proc[p].caught

\* The getLLMTree call on the extracted tree has returned.
Extracted == llm.pc \in {"returned", "processed", "serialized"}

\* The entries of a filtered tree the serializer indexes, in document order.
IndexedEntries(tree) == SelectSeq(tree, LAMBDA n : n.interactive)

OverlappingOpaqueSiblings(tree, a, b) ==
    /\ a # b
    /\ NodeAt(tree, a).parent = NodeAt(tree, b).parent
    /\ NodeAt(tree, a).opaque /\ NodeAt(tree, b).opaque
    /\ NodeAt(tree, a).rect = NodeAt(tree, b).rect

\* b has the strictly higher paint-order rank, or the same rank and the later
\* place in document order.
Outranks(tree, b, a) ==
    LET ra == NodeAt(tree, a).paintOrder
        rb == NodeAt(tree, b).paintOrder
    IN rb > ra \/ (rb = ra /\ PositionOf(tree, b) > PositionOf(tree, a))

\* C15: of two fully overlapping opaque siblings the one of lower rank (on
\* equal rank, the earlier one) is removed by the paint-order filter and the
\* other one stays unless a third node hides it; and every node the filter
\* removes lies under an opaque, later-painted node that is not one of its
\* descendants.
C15_OcclusionLaw ==
    (Extracted /\ llm.visibleTree # NoTree) =>
        LET tree == llm.visibleTree
            survivors == NodesOf(llm.paintFiltered)
        IN /\ \A a, b \in NodesOf(tree) :
                 (OverlappingOpaqueSiblings(tree, a, b) /\ Outranks(tree, b, a)) =>
                    /\ a \notin survivors
                    /\ \/ b \in survivors
                       \/ \E c \in NodesOf(tree) \ {a, b} :
                             /\ NodeAt(tree, c).opaque
                             /\ NodeAt(tree, c).rect \cap NodeAt(tree, b).rect # {}
                             /\ Outranks(tree, c, b)
           /\ \A a \in NodesOf(tree) \ survivors :
                 \E b \in NodesOf(tree) \ {a} :
                    /\ ~IsAncestor(tree, a, b)
                    /\ NodeAt(tree, b).opaque
                    /\ NodeAt(tree, b).rect \cap NodeAt(tree, a).rect # {}
                    /\ Outranks(tree, b, a)

\* C15 witness: two opaque siblings over the same rectangle, the first of
\* rank 2 and the second of rank 1; the first survives, the second does not,
\* and their parent, wholly covered by them, survives.
C15_Witness ==
    /\ Extracted
    /\ Len(llm.visibleTree) = 3
    /\ OverlappingOpaqueSiblings(llm.visibleTree, 1, 2)
    /\ llm.visibleTree[2].paintOrder = 2 /\ llm.visibleTree[3].paintOrder = 1
    /\ NodesOf(llm.paintFiltered) = {RootNode, 1}

\* C19: getLLMTree ran the stages in order, each on the output of the one
\* before; after an extraction without a tree, or a visibility filter without
\* a node, no later stage ran and the result is empty; and the result equals
\* serializeDOMTree(processTree(rawTree)) when processTree gives a tree.
C19_StageOrder ==
    Extracted =>
        /\ llm.rawTree = NoTree =>
              /\ llm.ran = <<"extractRawDOM">>
              /\ llm.result = [tree |-> << >>, selectorMap |-> << >>]
        /\ (llm.rawTree # NoTree /\ filterVisibleNodes(llm.rawTree) = NoTree) =>
              /\ llm.ran = <<"extractRawDOM", "filterVisibleNodes">>
              /\ llm.result = [tree |-> << >>, selectorMap |-> << >>]
        /\ (llm.rawTree # NoTree /\ filterVisibleNodes(llm.rawTree) # NoTree) =>
              /\ llm.ran = <<"extractRawDOM", "filterVisibleNodes", "filterByPaintOrder",
                             "filterByBboxPropagation", "serializeTree">>
              /\ llm.visibleTree = filterVisibleNodes(llm.rawTree)
              /\ llm.paintFiltered = filterByPaintOrder(llm.visibleTree)
              /\ llm.bboxFiltered = filterByBboxPropagation(llm.paintFiltered)
              /\ llm.result = serializeTree(llm.bboxFiltered)
        /\ llm.pc = "serialized" => llm.custom = llm.result

\* C19 witness: an extraction in which the paint-order filter removed a node
\* and the bounding-box filter another one, its result is not empty, and the
\* caller's own processTree and serializeDOMTree have run on the same tree.
C19_Witness ==
    /\ llm.pc = "serialized"
    /\ Len(llm.paintFiltered) < Len(llm.visibleTree)
    /\ Len(llm.bboxFiltered) < Len(llm.paintFiltered)
    /\ Len(llm.result.selectorMap) > 0

\* C20: a returned getLLMTreeWithBackendIds carries the tree and the selector
\* map getLLMTree gave for the extraction; with an empty selector map the
\* backendNodeMap is empty and resolveBackendIds was not called (no session
\* was opened); otherwise the backendNodeMap is what resolveBackendIds
\* returned for that selector map; its keys are keys of the selector map.
C20_TreeWithBackendIds ==
    llm.pc = "done" =>
        LET given == GetLLMTree(llm.rawTree).result
            r == proc[TreeCaller]
        IN /\ llm.out.tree = given.tree
           /\ llm.out.selectorMap = given.selectorMap
           /\ Len(given.selectorMap) = 0 =>
                 /\ llm.out.backendNodeMap = << >>
                 /\ ~llm.resolved
                 /\ r = Idle /\ openSessions = 0
           /\ Len(given.selectorMap) > 0 =>
                 /\ Returned(TreeCaller, RBI)
                 /\ r.selectorMap = given.selectorMap
                 /\ llm.out.backendNodeMap = r.indexToBackendId
           /\ DOMAIN llm.out.backendNodeMap \subseteq DOMAIN llm.out.selectorMap

\* C20 witness: a call returned one selector and, its element having left the
\* page before the resolution, no handle.
C20_Witness ==
    /\ llm.pc = "done"
    /\ DOMAIN llm.out.selectorMap = {1}
    /\ llm.resolved
    /\ llm.out.backendNodeMap = << >>

\* C18: a resolveBackendIds call that is at DOM.getDocument, at an entry's
\* query or at its describeNode has not detached its session (the session is
\* the one opened at the start, attached unless the engine closed it with the
\* page); and a call that has detached its session has processed the last
\* entry of its selector map, whether or not an entry failed.
C18_DetachAfterLastEntry ==
    \A p \in Procs : proc[p].op = RBI =>
        LET r == proc[p]
        IN /\ r.pc \in {"getDocument", "querySelector", "describeNode"} =>
                 r.session \in {"attached", "closed"}
           /\ r.pc = "newCDPSession" => r.session = "none"
           /\ r.session = "detached" =>
                 /\ r.k = Len(r.selectorMap)
                 /\ r.pc = "done" /\ r.error = ""

\* C18 witness: a call with two selectors whose first entry failed has
\* resolved the second entry and then detached.
C18_Witness ==
    \E p \in Procs :
        /\ Returned(p, RBI)
        /\ proc[p].session = "detached"
        /\ proc[p].caught
        /\ ~SelectorParses(proc[p].selectorMap[1])
        /\ DOMAIN proc[p].indexToBackendId = {2}

\* The pages created for a name that are still open.
OpenPagesFor(name) ==
    {page \in DOMAIN srv.pages : srv.pages[page].name = name /\ srv.pages[page].open}

\* The POST /pages requests answered with a page for a name.
AnsweredFor(name) ==
    {i \in DOMAIN srv.reqs :
        /\ srv.reqs[i].kind = "POST /pages" /\ srv.reqs[i].name = name
        /\ srv.reqs[i].pc = "done" /\ srv.reqs[i].status = 200}

\* C16 as stated: while a name is registered at most one open page has been
\* created for it, and all POST /pages answered for the name during one
\* registration carry the same targetId.
C16_GetOrCreate ==
    \A name \in ValidNames :
        /\ srv.registry[name] # NoEntry => Cardinality(OpenPagesFor(name)) <= 1
        /\ \A i, j \in AnsweredFor(name) :
              srv.reqs[i].epoch = srv.reqs[j].epoch =>
                  srv.reqs[i].targetId = srv.reqs[j].targetId

\* The requests that need the browser: GET /, a POST /pages with a usable
\* name, an upgrade on a /devtools path.
NeedsBrowser(r) ==
    \/ r.kind = "GET /"
    \/ r.kind = "POST /pages" /\ r.typeofName = "string"
          /\ Len(r.name) > 0 /\ Len(r.name) <= 256
    \/ r.kind = "upgrade" /\ r.devtools

\* C17: with lazy = true the browser launch has been started exactly when a
\* request that needs the browser has arrived, and it was started by the
\* first such request; with lazy = false it was started by serve itself, and
\* a serve that has returned has launched the browser.
C17_LazyLaunch ==
    /\ srv.phase = "start" => srv.launches = 0
    /\ srv.launches <= 1
    /\ ~srv.lazy =>
          /\ srv.launches > 0 => srv.launchedBy = ByServe
          /\ srv.phase = "listening" => srv.context /\ srv.launch = "launched"
    /\ srv.lazy =>
          /\ srv.launches = 0 <=> ~\E i \in DOMAIN srv.reqs : NeedsBrowser(srv.reqs[i])
          /\ srv.launches > 0 =>
                /\ srv.launchedBy \in DOMAIN srv.reqs
                /\ NeedsBrowser(srv.reqs[srv.launchedBy])
                /\ \A j \in 1..(srv.launchedBy - 1) : ~NeedsBrowser(srv.reqs[j])

\* C17 witness: a lazy server has answered a GET /pages without a launch;
\* the POST /pages that came next has launched the browser and been
\* answered.
C17_Witness ==
    /\ srv.lazy
    /\ Len(srv.reqs) = 2
    /\ srv.reqs[1].kind = "GET /pages" /\ srv.reqs[1].pc = "done"
    /\ srv.reqs[2].kind = "POST /pages" /\ srv.reqs[2].status = 200
    /\ srv.launchedBy = 2 /\ srv.launch = "launched"

\* The requests waiting for the launch promise.
AwaitingLaunch == {i \in DOMAIN srv.reqs : srv.reqs[i].pc = "awaitLaunch"}

\* C21: the persistent context is launched at most once per serve instance,
\* whatever GET /, POST /pages and /devtools upgrade requests arrive before
\* or during the launch: the launch counter never passes one, a context
\* exists only after that one launch, and every request that waits for a
\* launch waits for the one launch promise.
C21_LaunchOnce ==
    /\ srv.launches <= 1
    /\ srv.context => srv.launches = 1
    /\ srv.launch # "idle" <=> srv.launches = 1
    /\ AwaitingLaunch # {} => srv.launches = 1 /\ srv.browserLaunching # "null"

\* C21 witness: two requests that need the browser arrived at a lazy server
\* while the launch was under way, both waited for it, and one launch
\* served both.
C21_Witness ==
    /\ srv.lazy /\ srv.launches = 1 /\ srv.launch = "launched"
    /\ Len(srv.reqs) = 2
    /\ srv.reqs[1].kind = "POST /pages" /\ srv.reqs[2].kind = "upgrade"
    /\ srv.reqs[1].status = 200 /\ srv.reqs[2].status = 101
    /\ srv.launchedBy = 1

\* C22 as stated: every GET / and POST /pages answered with success carries
\* the proxied endpoint of the launched browser, and no handler goes on to
\* create a page before launchBrowser has set both the context and the
\* endpoint.
C22_EndpointAfterLaunch ==
    \A i \in DOMAIN srv.reqs :
        /\ srv.reqs[i].kind \in {"GET /", "POST /pages"} /\ srv.reqs[i].status = 200
              => srv.reqs[i].wsEndpoint
        /\ srv.reqs[i].pc \in {"newPage", "getTargetId"} => srv.launch = "launched"

\* C23 as stated: every registered name denotes an open page, and every
\* open page that a completed POST /pages created is the registry's entry
\* for its name.
C23_RegistryConsistent ==
    /\ \A name \in ValidNames :
          srv.registry[name] # NoEntry => srv.pages[srv.registry[name].page].open
    /\ \A i \in DOMAIN srv.reqs :
          LET r == srv.reqs[i]
          IN r.kind = "POST /pages" /\ r.pc = "done" /\ r.page # 0
                /\ srv.pages[r.page].open
             => srv.registry[r.name].page = r.page

\* A POST /pages body whose name is missing, not a string, empty or longer
\* than 256 characters.
UnusableName(r) ==
    r.typeofName # "string" \/ Len(r.name) = 0 \/ Len(r.name) > 256

OpenPages == {page \in DOMAIN srv.pages : srv.pages[page].open}

\* C26 as stated: the body of cleanup runs at most once, and once a stop()
\* has resolved the registry is empty, every page is closed, and a browser
\* context that was launched, or was being launched when stop() was called,
\* is closed.
C26_Shutdown ==
    /\ srv.cleanups <= 1
    /\ (\E k \in DOMAIN srv.callers :
            srv.callers[k].kind = "stop" /\ srv.callers[k].pc = "resolved")
       => /\ \A name \in DOMAIN srv.registry : srv.registry[name] = NoEntry
          /\ OpenPages = {}
          /\ srv.context => srv.contextClosed

\* C27 as stated: when a signal or error handler has called process.exit the
\* cleanup has completed, with every page and the browser context closed.
C27_ExitAfterCleanup ==
    srv.exited =>
        /\ srv.cleanup = "done"
        /\ OpenPages = {}
        /\ srv.context => srv.contextClosed

\* The data handed to chromeWs.send, in order.
SentData == [k \in DOMAIN srv.ws.sent |-> srv.ws.sent[k].data]

\* C28: on a proxied connection, before Chrome's socket has opened nothing
\* has been sent and the queue holds the client's messages in arrival
\* order; while both sockets are open after that, the queue is empty and
\* the messages sent to Chrome are the client's messages, each once and in
\* arrival order, the queued ones before the later ones; and at any time
\* the messages sent followed by the queued ones are the messages that
\* arrived.
C28_ProxyOrder ==
    /\ ~srv.ws.chromeReady =>
          srv.ws.sent = << >> /\ srv.ws.messageQueue = srv.ws.arrived
    /\ srv.ws.chromeWs = "OPEN" /\ srv.ws.clientWs = "OPEN" =>
          srv.ws.messageQueue = << >> /\ SentData = srv.ws.arrived
    /\ SentData \o srv.ws.messageQueue = srv.ws.arrived

\* C28 witness: two messages arrived before Chrome's socket opened and one
\* after; with both sockets open all three have been sent in arrival
\* order, the first two from the queue.
C28_Witness ==
    /\ srv.ws.chromeWs = "OPEN" /\ srv.ws.clientWs = "OPEN"
    /\ srv.ws.arrived = <<"x", "y", "x">>
    /\ SentData = <<"x", "y", "x">>
    /\ srv.ws.sent[1].binary = "default" /\ srv.ws.sent[2].binary = "default"
    /\ srv.ws.sent[3].binary = "text"

====
